---------------------------- MODULE Spec2Model ----------------------------
(***************************************************************************)
(* A model of go.expect.digital/request: Decoder.Decode binds the query,   *)
(* path and body of an HTTP request into a Go struct, driven by the `oas`  *)
(* field tags.                                                             *)
(*                                                                         *)
(* Text.  A Go string is a sequence of symbols.  A symbol is one character *)
(* ("a", ",", "[") or one indivisible word ("query", "required"); words    *)
(* keep tags readable and contain none of the characters the code looks    *)
(* for (",", " ", "|", "[", "]").                                          *)
(*                                                                         *)
(* Types.  A reflect.Type is a record [kind |-> ...]; a struct type lists  *)
(* its reflect.StructFields.  A reflect.Value is a record whose single     *)
(* field names its kind: [str |-> s], [bool |-> b], [int |-> n],           *)
(* [slice |-> seq, nil |-> b], [ptr |-> <<>> or <<v>>], [struct |-> seq].  *)
(***************************************************************************)
EXTENDS Integers, Sequences, FiniteSets, TLC

VARIABLES
    dec,        \* the Decoder: [style, exploded]
    arg,        \* the call's arguments: [r |-> request, kind, type, val0, orig]
    val,        \* the value i points at
    pc,         \* where Decode stands: start, index, fields, done, panic
    pending,    \* keys of r.URL.Query() the index loop has not visited yet
    query,      \* the query index (map[string][]string) built so far
    indexBuilt, \* whether the index map has been made
    fields,     \* the result of flattenFields(v)
    idx,        \* position of the field loop in fields
    err,        \* the error Decode returns
    pathCalls,  \* names the path-value provider was called with, in order
    bodyReads,  \* number of reads of r.Body started
    bodyLeft,   \* whether r.Body still holds its document
    decoded     \* history: the fields bound so far, each [field, val, texts]: the value
                \* its turn left and the texts its turn handed to UnmarshalText

vars == <<dec, arg, val, pc, pending, query, indexBuilt, fields, idx, err,
          pathCalls, bodyReads, bodyLeft, decoded>>

---------------------------------------------------------------------------
(* Bounds of the model.                                                    *)

\* longest query value, in symbols, in the round-trip scenarios
MaxStrLen == 2
\* most occurrences of one key in a request
MaxVals == 2
\* most distinct keys in a request
MaxKeys == 3

---------------------------------------------------------------------------
(* strings                                                                 *)

\* unicode.ToLower of one symbol: the capital letters, and the words that
\* hold capitals
Lower(c) ==
    CASE c = "A" -> "a" [] c = "B" -> "b" [] c = "C" -> "c"
      [] c = "D" -> "d" [] c = "E" -> "e" [] c = "F" -> "f"
      [] c = "G" -> "g" [] c = "H" -> "h" [] c = "I" -> "i"
      [] c = "J" -> "j" [] c = "K" -> "k" [] c = "L" -> "l"
      [] c = "M" -> "m" [] c = "N" -> "n" [] c = "O" -> "o"
      [] c = "P" -> "p" [] c = "Q" -> "q" [] c = "R" -> "r"
      [] c = "S" -> "s" [] c = "T" -> "t" [] c = "U" -> "u"
      [] c = "V" -> "v" [] c = "W" -> "w" [] c = "X" -> "x"
      [] c = "Y" -> "y" [] c = "Z" -> "z"
      [] c = "deepObject" -> "deepobject"
      [] c = "spaceDelimited" -> "spacedelimited"
      [] c = "pipeDelimited" -> "pipedelimited"
      [] c = "APPLICATION/JSON" -> "application/json"
      [] c = "Application/XML" -> "application/xml"
      [] OTHER -> c

ToLower(s) == [i \in 1..Len(s) |-> Lower(s[i])]

HasPrefix(s, p) == Len(p) <= Len(s) /\ SubSeq(s, 1, Len(p)) = p

HasSuffix(s, p) == Len(p) <= Len(s) /\ SubSeq(s, Len(s) - Len(p) + 1, Len(s)) = p

\* strings.CutPrefix / strings.CutSuffix: [ok, rest]
CutPrefix(s, p) ==
    IF HasPrefix(s, p) THEN [ok |-> TRUE, rest |-> SubSeq(s, Len(p) + 1, Len(s))]
    ELSE [ok |-> FALSE, rest |-> s]

CutSuffix(s, p) ==
    IF HasSuffix(s, p) THEN [ok |-> TRUE, rest |-> SubSeq(s, 1, Len(s) - Len(p))]
    ELSE [ok |-> FALSE, rest |-> s]

\* strings.Split(s, d) for a one-symbol separator d
RECURSIVE Split(_, _)
Split(s, d) ==
    IF \A i \in 1..Len(s) : s[i] # d THEN <<s>>
    ELSE LET i == CHOOSE k \in 1..Len(s) : s[k] = d /\ \A j \in 1..(k - 1) : s[j] # d
         IN  <<SubSeq(s, 1, i - 1)>> \o Split(SubSeq(s, i + 1, Len(s)), d)

\* strings.Join(elems, d)
RECURSIVE Join(_, _)
Join(elems, d) ==
    IF Len(elems) = 0 THEN <<>>
    ELSE IF Len(elems) = 1 THEN elems[1]
    ELSE elems[1] \o <<d>> \o Join(Tail(elems), d)

RECURSIVE TrimLeft(_)
TrimLeft(s) == IF Len(s) > 0 /\ s[1] = " " THEN TrimLeft(Tail(s)) ELSE s

RECURSIVE TrimRight(_)
TrimRight(s) ==
    IF Len(s) > 0 /\ s[Len(s)] = " " THEN TrimRight(SubSeq(s, 1, Len(s) - 1)) ELSE s

TrimSpace(s) == TrimRight(TrimLeft(s))

\* slices.Contains
Contains(seq, x) == \E i \in 1..Len(seq) : seq[i] = x

---------------------------------------------------------------------------
(* strconv                                                                 *)

Digits == {"0", "1", "2", "3", "4", "5", "6", "7", "8", "9"}

DigitVal(c) ==
    CASE c = "0" -> 0 [] c = "1" -> 1 [] c = "2" -> 2 [] c = "3" -> 3
      [] c = "4" -> 4 [] c = "5" -> 5 [] c = "6" -> 6 [] c = "7" -> 7
      [] c = "8" -> 8 [] c = "9" -> 9

RECURSIVE Pow2(_)
Pow2(n) == IF n = 0 THEN 1 ELSE 2 * Pow2(n - 1)

RECURSIVE DecimalVal(_)
DecimalVal(s) ==
    IF Len(s) = 0 THEN 0
    ELSE 10 * DecimalVal(SubSeq(s, 1, Len(s) - 1)) + DigitVal(s[Len(s)])

AllDigits(s) == Len(s) > 0 /\ \A i \in 1..Len(s) : s[i] \in Digits

\* strconv.ParseUint(s, 10, bits): no sign is accepted
ParseUint(s, bits) ==
    IF ~AllDigits(s) THEN [ok |-> FALSE, n |-> 0]
    ELSE IF DecimalVal(s) > Pow2(bits) - 1 THEN [ok |-> FALSE, n |-> 0]
    ELSE [ok |-> TRUE, n |-> DecimalVal(s)]

\* ParseInt with a value out of range wrapped into the width
ParseIntWrap(s, bits) ==
    LET neg  == Len(s) > 0 /\ s[1] = "-"
        sign == Len(s) > 0 /\ s[1] \in {"-", "+"}
        body == IF sign THEN Tail(s) ELSE s
    IN  IF ~AllDigits(body) THEN [ok |-> FALSE, n |-> 0]
        ELSE [ok |-> TRUE,
              n |-> (((IF neg THEN 0 - DecimalVal(body) ELSE DecimalVal(body))
                          + Pow2(bits - 1)) % Pow2(bits)) - Pow2(bits - 1)]

\* strconv.ParseInt(s, 10, bits): an optional sign, then digits
ParseInt(s, bits) ==
    LET neg  == Len(s) > 0 /\ s[1] = "-"
        sign == Len(s) > 0 /\ s[1] \in {"-", "+"}
        body == IF sign THEN Tail(s) ELSE s
    IN  IF ~AllDigits(body) THEN [ok |-> FALSE, n |-> 0]
        ELSE IF ~neg /\ DecimalVal(body) > Pow2(bits - 1) - 1 THEN [ok |-> FALSE, n |-> 0]
        ELSE IF neg /\ DecimalVal(body) > Pow2(bits - 1) THEN [ok |-> FALSE, n |-> 0]
        ELSE [ok |-> TRUE, n |-> IF neg THEN 0 - DecimalVal(body) ELSE DecimalVal(body)]

\* strconv.ParseBool
ParseBool(s) ==
    IF s \in {<<"1">>, <<"t">>, <<"T">>, <<"true">>, <<"TRUE">>, <<"True">>}
    THEN [ok |-> TRUE, b |-> TRUE]
    ELSE IF s \in {<<"0">>, <<"f">>, <<"F">>, <<"false">>, <<"FALSE">>, <<"False">>}
    THEN [ok |-> TRUE, b |-> FALSE]
    ELSE [ok |-> FALSE, b |-> FALSE]

---------------------------------------------------------------------------
(* reflect: types, struct fields and values                                *)

TBool == [kind |-> "bool"]
TString == [kind |-> "string"]
TInt(w) == [kind |-> "int", bits |-> w]
TUint(w) == [kind |-> "uint", bits |-> w]
TMap == [kind |-> "map"]
TSlice(e) == [kind |-> "slice", elem |-> e]
TPtr(e) == [kind |-> "ptr", elem |-> e]
TStruct(fs) == [kind |-> "struct", fields |-> fs, text |-> FALSE]

\* an exported field with an `oas` tag, one without a tag, an unexported one
Tagged(name, tag, type) ==
    [name |-> name, exported |-> TRUE, hasTag |-> TRUE, tag |-> tag, type |-> type]

Untagged(name, type) ==
    [name |-> name, exported |-> TRUE, hasTag |-> FALSE, tag |-> <<>>, type |-> type]

Unexported(name, tag, type) ==
    [name |-> name, exported |-> FALSE, hasTag |-> TRUE, tag |-> tag, type |-> type]

\* type Sort struct { Name string; Asc bool } with UnmarshalText on *Sort
TSort ==
    [kind |-> "struct",
     fields |-> <<Untagged(<<"N">>, TString), Untagged(<<"A">>, TBool)>>,
     text |-> TRUE]

\* whether a pointer to the type is an encoding.TextUnmarshaler
ImplementsTextUnmarshaler(t) == t.kind = "struct" /\ t.text

RECURSIVE Zero(_)
Zero(t) ==
    CASE t.kind = "bool" -> [bool |-> FALSE]
      [] t.kind = "string" -> [str |-> <<>>]
      [] t.kind \in {"int", "uint"} -> [int |-> 0]
      [] t.kind = "map" -> [map |-> "nil"]
      [] t.kind = "slice" -> [slice |-> <<>>, nil |-> TRUE]
      [] t.kind = "ptr" -> [ptr |-> <<>>]
      [] t.kind = "struct" -> [struct |-> [i \in 1..Len(t.fields) |-> Zero(t.fields[i].type)]]

\* v.Field(i).Field(j)... along a path of field indices
RECURSIVE GetAt(_, _)
GetAt(v, path) ==
    IF path = <<>> THEN v ELSE GetAt(v.struct[path[1]], Tail(path))

RECURSIVE SetAt(_, _, _)
SetAt(v, path, nv) ==
    IF path = <<>> THEN nv
    ELSE [struct |-> [v.struct EXCEPT ![path[1]] = SetAt(v.struct[path[1]], Tail(path), nv)]]

---------------------------------------------------------------------------
(* the Decoder and its options                                             *)

originQuery == "query"
originBody == "body"
originPath == "path"
originHeader == "header"

QueryStyleForm == <<"form">>
QueryStyleSpaceDelimited == <<"spaceDelimited">>
QueryStylePipeDelimited == <<"pipeDelimited">>
QueryStyleDeepObject == <<"deepObject">>

QueryStyle(style) == [opt |-> "QueryStyle", style |-> style]
QueryExplode == [opt |-> "QueryExplode", style |-> <<>>]
QueryImplode == [opt |-> "QueryImplode", style |-> <<>>]

\* opt.apply(&decoder)
ApplyOpt(d, o) ==
    CASE o.opt = "QueryStyle" -> [d EXCEPT !.style = o.style]
      [] o.opt = "QueryExplode" -> [d EXCEPT !.exploded = TRUE]
      [] o.opt = "QueryImplode" -> [d EXCEPT !.exploded = FALSE]

RECURSIVE ApplyOpts(_, _)
ApplyOpts(d, opts) ==
    IF Len(opts) = 0 THEN d ELSE ApplyOpts(ApplyOpt(d, Head(opts)), Tail(opts))

NewDecoder(opts) == ApplyOpts([exploded |-> TRUE, style |-> QueryStyleForm], opts)

---------------------------------------------------------------------------
(* tags and the field walker                                               *)
(* A definition that needs an intermediate result more than once takes it  *)
(* as a parameter of a helper, so that each result is written once.        *)

Origins == {<<originBody>>, <<originHeader>>, <<originPath>>, <<originQuery>>}

\* the index of the last setting that is an origin as written, or 0
lastOrigin(raw) ==
    IF \A i \in 1..Len(raw) : raw[i] \notin Origins THEN 0
    ELSE CHOOSE i \in 1..Len(raw) :
            raw[i] \in Origins /\ \A j \in (i + 1)..Len(raw) : raw[j] \notin Origins

\* conf.conf[found] = conf.conf[n]; conf.conf = conf.conf[:n]
removeAt(conf, found) ==
    SubSeq([conf EXCEPT ![found] = conf[Len(conf)]], 1, Len(conf) - 1)

trimAll(raw) == [i \in 1..Len(raw) |-> TrimSpace(raw[i])]

originAt(name, raw, found) ==
    [origin |-> IF found = 0 THEN originQuery ELSE raw[found][1],
     name   |-> name,
     conf   |-> IF found = 0 THEN trimAll(raw) ELSE removeAt(trimAll(raw), found)]

tagConf(sf, values) ==
    originAt(IF values[1] = <<>> THEN ToLower(sf.name) ELSE values[1],
             Tail(values), lastOrigin(Tail(values)))

\* parseFieldConf: [origin, name, conf].  The origin is matched against the
\* setting as written (before TrimSpace); the last origin setting wins and
\* is removed by moving the last setting into its place.
parseFieldConf(sf) ==
    IF ~sf.hasTag
    THEN [origin |-> originQuery, name |-> ToLower(sf.name), conf |-> <<>>]
    ELSE tagConf(sf, Split(sf.tag, ","))

\* whether flattenFields replaces the field by its children
flattened(sf, c) ==
    /\ sf.type.kind = "struct"
    /\ c.origin = originQuery
    /\ ~Contains(c.conf, QueryStyleDeepObject)

walkerField(path, sf, c) ==
    [path |-> path, sf |-> sf, origin |-> c.origin,
     conf |-> [name |-> c.name, conf |-> c.conf]]

\* flattenFields, from field i of struct type t reached by `path`
RECURSIVE flattenFrom(_, _, _)
flattenField(t, path, i, sf, c) ==
    IF ~sf.exported THEN flattenFrom(t, path, i + 1)
    ELSE IF ImplementsTextUnmarshaler(sf.type)
    THEN <<walkerField(Append(path, i), sf, c)>> \o flattenFrom(t, path, i + 1)
    ELSE IF flattened(sf, c)
    THEN flattenFrom(sf.type, Append(path, i), 1) \o flattenFrom(t, path, i + 1)
    ELSE <<walkerField(Append(path, i), sf, c)>> \o flattenFrom(t, path, i + 1)

flattenFrom(t, path, i) ==
    IF i > Len(t.fields) THEN <<>>
    ELSE flattenField(t, path, i, t.fields[i], parseFieldConf(t.fields[i]))

flattenFields(t) == flattenFrom(t, <<>>, 1)

\* one setting of the switch of parseQueryFieldConf
applySetting(conf, s) ==
    IF s = <<"required">> THEN [conf EXCEPT !.required = TRUE]
    ELSE IF s = <<"explode">> THEN [conf EXCEPT !.exploded = TRUE]
    ELSE IF s = <<"implode">> THEN [conf EXCEPT !.exploded = FALSE]
    ELSE IF s \in {QueryStyleForm, QueryStylePipeDelimited, QueryStyleSpaceDelimited}
    THEN [conf EXCEPT !.style = s, !.exploded = FALSE]
    ELSE IF s = QueryStyleDeepObject THEN [conf EXCEPT !.style = s]
    ELSE [conf EXCEPT !.err = TRUE, !.part = s]

\* the settings loop: an invalid part returns at once
RECURSIVE applySettings(_, _, _)
applySettings(conf, settings, i) ==
    IF i > Len(settings) \/ conf.err THEN conf
    ELSE applySettings(applySetting(conf, settings[i]), settings, i + 1)

\* deepObject allows only exploded
deepExploded(conf) ==
    IF ~conf.err /\ conf.style = QueryStyleDeepObject
    THEN [conf EXCEPT !.exploded = TRUE]
    ELSE conf

\* a tag without settings returns the Decoder's policy as it is
settingsOf(conf, settings) ==
    IF Len(settings) = 0 THEN conf ELSE deepExploded(applySettings(conf, settings, 1))

\* parseQueryFieldConf with the policy of NewDecoder() in place of d.query
parseQueryFieldConfDefaults(d, tagConf_) ==
    settingsOf([err |-> FALSE, part |-> <<>>, name |-> tagConf_.name,
                style |-> QueryStyleForm, exploded |-> TRUE,
                required |-> FALSE], tagConf_.conf)

\* Decoder.parseQueryFieldConf: [err, part, name, style, exploded, required]
parseQueryFieldConf(d, tagConf_) ==
    settingsOf([err |-> FALSE, part |-> <<>>, name |-> tagConf_.name,
                style |-> d.style, exploded |-> d.exploded,
                required |-> FALSE], tagConf_.conf)

---------------------------------------------------------------------------
(* the query resolver                                                      *)

\* indexMerge with the values under the lower-case key replaced
indexMergeNone(q, lower, qv) == qv

\* indexMerge with the values already under the lower-case key appended twice
indexMergeTwice(q, lower, qv) ==
    IF lower \in DOMAIN q THEN qv \o q[lower] \o q[lower] ELSE qv

\* one pass of the index loop of Decode for key qk of r.URL.Query()
indexMerge(q, lower, qv) == IF lower \in DOMAIN q THEN qv \o q[lower] ELSE qv

indexStore(q, qk, lower, qv) ==
    [k \in (DOMAIN q) \cup {qk, lower} |-> IF k \in {qk, lower} THEN qv ELSE q[k]]

indexPut(q, urlQuery, qk) ==
    indexStore(q, qk, ToLower(qk), indexMerge(q, ToLower(qk), urlQuery[qk]))

\* strings.CutPrefix(k, name+"[") then strings.CutSuffix(propName, "]")
propName(name, k) ==
    IF CutPrefix(k, name \o <<"[">>).ok
    THEN CutSuffix(CutPrefix(k, name \o <<"[">>).rest, <<"]">>)
    ELSE [ok |-> FALSE, rest |-> k]

\* the index key k is bracketed behind a prefix as long as the name
bracketed(name, k) ==
    Len(k) >= Len(name) + 2 /\ k[Len(name) + 1] = "[" /\ k[Len(k)] = "]"

\* parseQueryValuesDeep with the prefix of the key not compared with the name
parseQueryValuesDeepAnyPrefix(name, q) ==
    [p \in {SubSeq(k, Len(name) + 2, Len(k) - 1) :
                k \in {k \in DOMAIN q : bracketed(name, k)}} |->
        q[CHOOSE k \in DOMAIN q :
              bracketed(name, k) /\ SubSeq(k, Len(name) + 2, Len(k) - 1) = p]]

\* the sub-keys p of the index keys name[p], each with that key's values
parseQueryValuesDeep(name, q) ==
    [p \in {propName(name, k).rest : k \in {k \in DOMAIN q : propName(name, k).ok}} |->
        q[name \o <<"[">> \o p \o <<"]">>]]

\* styleDelimiter with the comma whatever the style
styleDelimiterComma(style) == ","

styleDelimiter(style) ==
    CASE style = QueryStyleSpaceDelimited -> " "
      [] style = QueryStylePipeDelimited -> "|"
      [] OTHER -> ","

\* resolveValues with the first occurrence only where the policy is exploded
resolveValuesFirst(queryConf, values) ==
    IF Len(values) = 0 THEN values
    ELSE IF queryConf.exploded THEN <<values[1]>>
    ELSE Split(values[Len(values)], styleDelimiter(queryConf.style))

\* resolveValues with the first occurrence split where the policy is imploded
resolveValuesHead(queryConf, values) ==
    IF queryConf.exploded \/ Len(values) = 0 THEN values
    ELSE Split(values[1], styleDelimiter(queryConf.style))

\* the values found under the name, as the field's policy reads them
resolveValues(queryConf, values) ==
    IF queryConf.exploded \/ Len(values) = 0 THEN values
    ELSE Split(values[Len(values)], styleDelimiter(queryConf.style))

\* parseQueryValues with a key of the one empty value taken as absent
parseQueryValuesNonEmpty(queryConf, q) ==
    IF queryConf.name \notin DOMAIN q \/ q[queryConf.name] = <<<<>>>>
    THEN [vals |-> <<>>, ok |-> FALSE]
    ELSE [vals |-> resolveValues(queryConf, q[queryConf.name]), ok |-> TRUE]

\* parseQueryValues: [vals, ok]
parseQueryValues(queryConf, q) ==
    IF queryConf.name \notin DOMAIN q THEN [vals |-> <<>>, ok |-> FALSE]
    ELSE [vals |-> resolveValues(queryConf, q[queryConf.name]), ok |-> TRUE]

---------------------------------------------------------------------------
(* the value coercer: every result is [err, val], err = "" on success      *)

sortOf(v, words) ==
    IF Len(words) > 2 THEN [err |-> "unmarshal", val |-> v]
    ELSE [err |-> "",
          val |-> [struct |-> <<[str |-> words[1]],
                                [bool |-> Len(words) = 1 \/ ToLower(words[2]) = <<"asc">>]>>]]

\* (*Sort).UnmarshalText
UnmarshalText(v, text) == sortOf(v, Split(text, ","))

setBool(v, p) ==
    IF p.ok THEN [err |-> "", val |-> [bool |-> p.b]] ELSE [err |-> "parse", val |-> v]

setInt(v, p) ==
    IF p.ok THEN [err |-> "", val |-> [int |-> p.n]] ELSE [err |-> "parse", val |-> v]

\* setBytes with the value parsed as one 8-bit number
setBytesParsed(value) ==
    IF ParseUint(value, 8).ok
    THEN [err |-> "", val |-> [slice |-> <<[int |-> ParseUint(value, 8).n]>>, nil |-> FALSE]]
    ELSE [err |-> "parse", val |-> [slice |-> <<>>, nil |-> TRUE]]

\* rv.SetBytes([]byte(value))
setBytes(value) ==
    [err |-> "",
     val |-> [slice |-> [i \in 1..Len(value) |-> [byte |-> value[i]]], nil |-> FALSE]]

\* rv.Set(slice), reached when every element was coerced
setSlice(v, r) ==
    IF r.err # "" THEN [err |-> r.err, val |-> v]
    ELSE [err |-> "", val |-> [slice |-> r.elems, nil |-> FALSE]]

\* the pointer loop: a nil pointer is allocated before its element is set
deref(t, v) == IF v.ptr = <<>> THEN Zero(t.elem) ELSE v.ptr[1]

setPtr(r) == [err |-> r.err, val |-> [ptr |-> <<r.val>>]]

appendElem(r, rest) ==
    IF r.err # "" THEN [err |-> r.err, elems |-> <<>>]
    ELSE IF rest.err # "" THEN [err |-> rest.err, elems |-> <<>>]
    ELSE [err |-> "", elems |-> <<r.val>> \o rest.elems]

\* unknownType with no error reported for the kind
unknownTypeSkipped(kind) == ""

\* fmt.Errorf("unknown type: %s", kind)
unknownType(kind) ==
    CASE kind = "map" -> "unknown type: map"
      [] kind = "struct" -> "unknown type: struct"
      [] OTHER -> "unknown type"

\* the elements of a slice, each coerced from one raw value: [err, elems]
RECURSIVE setValue(_, _, _)
RECURSIVE setElems(_, _, _)
setElems(elemType, values, i) ==
    IF i > Len(values) THEN [err |-> "", elems |-> <<>>]
    ELSE appendElem(setValue(elemType, Zero(elemType), <<values[i]>>),
                    setElems(elemType, values, i + 1))

setValue(t, v, values) ==
    IF Len(values) = 0 THEN [err |-> "", val |-> v]
    ELSE IF t.kind = "ptr" THEN setPtr(setValue(t.elem, deref(t, v), values))
    ELSE IF ImplementsTextUnmarshaler(t) THEN UnmarshalText(v, values[1])
    ELSE CASE t.kind = "bool" -> setBool(v, ParseBool(values[1]))
           [] t.kind = "string" -> [err |-> "", val |-> [str |-> values[1]]]
           [] t.kind = "uint" -> setInt(v, ParseUint(values[1], t.bits))
           [] t.kind = "int" -> setInt(v, ParseInt(values[1], t.bits))
           [] t.kind = "slice" ->
                IF t.elem = TUint(8) THEN setBytes(values[1])
                ELSE setSlice(v, setElems(t.elem, values, 1))
           [] OTHER -> [err |-> unknownType(t.kind), val |-> v]

\* whether setDeepValue passes the field by
deepIgnored(c) == c.origin # originQuery /\ c.name = <<"-">>

\* query[conf.name]
lookup(q, name) == IF name \in DOMAIN q THEN q[name] ELSE <<>>

\* setValue(rv.Field(i), values); reflect panics when a value is to be
\* stored through an unexported field
setDeepField(sf, v, values) ==
    IF ~sf.exported /\ Len(values) > 0 THEN [err |-> "panic", val |-> v]
    ELSE setValue(sf.type, v, values)

\* the field loop of setDeepValue from field i on
RECURSIVE deepFrom(_, _, _, _)
deepNext(t, v, q, i, r) ==
    IF r.err # "" THEN [err |-> r.err, val |-> [struct |-> [v.struct EXCEPT ![i] = r.val]]]
    ELSE deepFrom(t, [struct |-> [v.struct EXCEPT ![i] = r.val]], q, i + 1)

deepField(t, v, q, i, c) ==
    IF deepIgnored(c) THEN deepFrom(t, v, q, i + 1)
    ELSE deepNext(t, v, q, i, setDeepField(t.fields[i], v.struct[i], lookup(q, c.name)))

deepFrom(t, v, q, i) ==
    IF i > Len(t.fields) THEN [err |-> "", val |-> v]
    ELSE deepField(t, v, q, i, parseFieldConf(t.fields[i]))

RECURSIVE setDeepValue(_, _, _)
setDeepValue(t, v, q) ==
    IF t.kind = "ptr" THEN setPtr(setDeepValue(t.elem, deref(t, v), q))
    ELSE IF t.kind # "struct" THEN [err |-> "want struct", val |-> v]
    ELSE deepFrom(t, v, q, 1)

---------------------------------------------------------------------------
(* errors of Decode: [kind, name, cause]                                   *)

NoErr == [kind |-> "nil", name |-> <<>>, cause |-> ""]
Err(kind, name, cause) == [kind |-> kind, name |-> name, cause |-> cause]

\* fmt.Errorf("query param '%s': %w", name, err)
wrapped(kind, name, r) ==
    [err |-> IF r.err = "" THEN NoErr ELSE Err(kind, name, r.err), val |-> r.val]

decodeDeep(t, v, queryConf, qv) ==
    IF queryConf.required /\ DOMAIN qv = {}
    THEN [err |-> Err("required", queryConf.name, ""), val |-> v]
    ELSE wrapped("query param", queryConf.name, setDeepValue(t, v, qv))

decodeNormal(t, v, queryConf, p) ==
    IF ~p.ok /\ queryConf.required
    THEN [err |-> Err("required", queryConf.name, ""), val |-> v]
    ELSE IF ~p.ok /\ Len(p.vals) = 0 THEN [err |-> NoErr, val |-> v]
    ELSE wrapped("query param", queryConf.name, setValue(t, v, p.vals))

decodeQueryConf(t, v, queryConf, q) ==
    IF queryConf.err THEN [err |-> Err("invalid part", queryConf.part, ""), val |-> v]
    ELSE IF queryConf.style = QueryStyleDeepObject
    THEN decodeDeep(t, v, queryConf, parseQueryValuesDeep(queryConf.name, q))
    ELSE decodeNormal(t, v, queryConf, parseQueryValues(queryConf, q))

\* Decoder.decodeQuery: [err, val]
decodeQuery(d, t, v, conf, q) == decodeQueryConf(t, v, parseQueryFieldConf(d, conf), q)

\* the format decodeBody picks: "json", "xml" or "" (unsupported)
bodyFormat(accept, conf) ==
    IF Contains(conf.conf, <<"json">>) THEN "json"
    ELSE IF Contains(conf.conf, <<"xml">>) THEN "xml"
    ELSE IF HasPrefix(ToLower(accept), <<"application/json">>) THEN "json"
    ELSE IF HasPrefix(ToLower(accept), <<"application/xml">>) THEN "xml"
    ELSE ""

\* what the json or xml decoder stores for the document of the body
RECURSIVE BodyValue(_)
BodyValue(t) ==
    CASE t.kind = "bool" -> [bool |-> TRUE]
      [] t.kind = "string" -> [str |-> <<"j">>]
      [] t.kind \in {"int", "uint"} -> [int |-> 9]
      [] t.kind = "struct" ->
            [struct |-> [i \in 1..Len(t.fields) |-> BodyValue(t.fields[i].type)]]
      [] OTHER -> Zero(t)

\* readBody with the document still in r.Body after it was decoded
readBodyKeeps(r, t, v, format, left) ==
    IF format = ""
    THEN [err |-> Err("unsupported body", <<>>, ""), val |-> v, read |-> 0, left |-> left]
    ELSE IF left /\ r.body = format
    THEN [err |-> NoErr, val |-> BodyValue(t), read |-> 1, left |-> left]
    ELSE [err |-> Err("decode body", <<>>, format), val |-> v, read |-> 1, left |-> FALSE]

\* a decoder reads r.Body, which yields its document once
readBody(r, t, v, format, left) ==
    IF format = ""
    THEN [err |-> Err("unsupported body", <<>>, ""), val |-> v, read |-> 0, left |-> left]
    ELSE IF left /\ r.body = format
    THEN [err |-> NoErr, val |-> BodyValue(t), read |-> 1, left |-> FALSE]
    ELSE [err |-> Err("decode body", <<>>, format), val |-> v, read |-> 1, left |-> FALSE]

\* decodeBody: [err, val, read, left]
decodeBody(r, t, v, conf, left) == readBody(r, t, v, bodyFormat(r.accept, conf), left)

\* r.PathValue(name)
pathValue(r, name) == IF name \in DOMAIN r.path THEN r.path[name] ELSE <<>>

\* decodeHeaders with nothing to report
decodeHeadersNil == NoErr

decodeHeaders == Err("header not implemented", <<>>, "")

\* results of the four origins, each [err, val, calls, read, left]
fromQuery(x, left) ==
    [err |-> x.err, val |-> x.val, calls |-> <<>>, read |-> 0, left |-> left]

fromBody(x) ==
    [err |-> x.err, val |-> x.val, calls |-> <<>>, read |-> x.read, left |-> x.left]

\* fromPath with the provider called a second time for the field
fromPathTwice(x, name, left) ==
    [err |-> x.err, val |-> x.val, calls |-> <<name, name>>, read |-> 0, left |-> left]

fromPath(x, name, left) ==
    [err |-> x.err, val |-> x.val, calls |-> <<name>>, read |-> 0, left |-> left]

fromHeader(e, v, left) ==
    [err |-> e, val |-> v, calls |-> <<>>, read |-> 0, left |-> left]

passedBy(v, left) ==
    [err |-> NoErr, val |-> v, calls |-> <<>>, read |-> 0, left |-> left]

\* whether the field loop of Decode passes the field by
ignored(f) == f.conf.name = <<"-">>

\* the body of the field loop of Decode for field f holding v
decodeField(d, r, f, v, q, left) ==
    IF ignored(f) THEN passedBy(v, left)
    ELSE CASE f.origin = originQuery ->
                fromQuery(decodeQuery(d, f.sf.type, v, f.conf, q), left)
           [] f.origin = originBody ->
                fromBody(decodeBody(r, f.sf.type, v, f.conf, left))
           [] f.origin = originPath ->
                fromPath(wrapped("path", f.conf.name,
                                 setValue(f.sf.type, v, <<pathValue(r, f.conf.name)>>)),
                         f.conf.name, left)
           [] f.origin = originHeader -> fromHeader(decodeHeaders, v, left)

\* the texts setValue hands to UnmarshalText for the values, call by call
RECURSIVE textsOf(_, _)
RECURSIVE textsOfElems(_, _, _)
textsOfElems(elemType, values, i) ==
    IF i > Len(values) THEN <<>>
    ELSE IF setValue(elemType, Zero(elemType), <<values[i]>>).err # ""
    THEN textsOf(elemType, <<values[i]>>)
    ELSE textsOf(elemType, <<values[i]>>) \o textsOfElems(elemType, values, i + 1)

textsOf(t, values) ==
    IF Len(values) = 0 THEN <<>>
    ELSE IF t.kind = "ptr" THEN textsOf(t.elem, values)
    ELSE IF ImplementsTextUnmarshaler(t) THEN <<values[1]>>
    ELSE IF t.kind = "slice" /\ t.elem # TUint(8) THEN textsOfElems(t.elem, values, 1)
    ELSE <<>>

\* the texts setDeepValue hands to UnmarshalText from field i on
RECURSIVE textsOfDeepFrom(_, _, _)
textsOfDeepField(t, q, i, c) ==
    IF deepIgnored(c) THEN textsOfDeepFrom(t, q, i + 1)
    ELSE IF ~t.fields[i].exported /\ Len(lookup(q, c.name)) > 0 THEN <<>>
    ELSE IF setValue(t.fields[i].type, Zero(t.fields[i].type), lookup(q, c.name)).err # ""
    THEN textsOf(t.fields[i].type, lookup(q, c.name))
    ELSE textsOf(t.fields[i].type, lookup(q, c.name)) \o textsOfDeepFrom(t, q, i + 1)

textsOfDeepFrom(t, q, i) ==
    IF i > Len(t.fields) THEN <<>>
    ELSE textsOfDeepField(t, q, i, parseFieldConf(t.fields[i]))

RECURSIVE textsOfDeep(_, _)
textsOfDeep(t, q) ==
    IF t.kind = "ptr" THEN textsOfDeep(t.elem, q)
    ELSE IF t.kind # "struct" THEN <<>>
    ELSE textsOfDeepFrom(t, q, 1)

\* the texts decodeQuery hands to UnmarshalText
textsOfNormal(t, p) == IF p.ok THEN textsOf(t, p.vals) ELSE <<>>

textsOfQuery(t, queryConf, q) ==
    IF queryConf.err THEN <<>>
    ELSE IF queryConf.style = QueryStyleDeepObject
    THEN textsOfDeep(t, parseQueryValuesDeep(queryConf.name, q))
    ELSE textsOfNormal(t, parseQueryValues(queryConf, q))

\* the texts one pass of the field loop hands to UnmarshalText
fieldTexts(d, r, f, q) ==
    IF ignored(f) THEN <<>>
    ELSE IF f.origin = originQuery
    THEN textsOfQuery(f.sf.type, parseQueryFieldConf(d, f.conf), q)
    ELSE IF f.origin = originPath
    THEN textsOf(f.sf.type, <<pathValue(r, f.conf.name)>>)
    ELSE <<>>

\* the checks Decode makes of its second argument
usageError(kind) ==
    IF kind = "nonptr" THEN Err("non-pointer", <<>>, "")
    ELSE IF kind = "ptr_nonstruct" THEN Err("pointer to non-struct", <<>>, "")
    ELSE NoErr

---------------------------------------------------------------------------
(* Decoder.Decode as a state machine                                       *)

\* DecodeStart with the index map made before the argument is checked
DecodeStartIndexFirst ==
    /\ pc = "start"
    /\ indexBuilt' = TRUE
    /\ IF usageError(arg.kind) # NoErr
       THEN /\ err' = usageError(arg.kind)
            /\ pc' = "done"
            /\ UNCHANGED pending
       ELSE /\ pc' = "index"
            /\ pending' = DOMAIN arg.r.query
            /\ UNCHANGED err
    /\ UNCHANGED <<dec, arg, val, query, fields, idx, pathCalls, bodyReads, bodyLeft, decoded>>

\* the argument checks; a struct target gets its index map made
DecodeStart ==
    /\ pc = "start"
    /\ IF usageError(arg.kind) # NoErr
       THEN /\ err' = usageError(arg.kind)
            /\ pc' = "done"
            /\ UNCHANGED <<pending, indexBuilt>>
       ELSE /\ pc' = "index"
            /\ pending' = DOMAIN arg.r.query
            /\ indexBuilt' = TRUE
            /\ UNCHANGED err
    /\ UNCHANGED <<dec, arg, val, query, fields, idx, pathCalls, bodyReads, bodyLeft, decoded>>

\* one pass of the index loop; Go ranges over the map in any order
IndexStep ==
    /\ pc = "index"
    /\ \E qk \in pending :
          /\ query' = indexPut(query, arg.r.query, qk)
          /\ pending' = pending \ {qk}
    /\ UNCHANGED <<dec, arg, val, pc, indexBuilt, fields, idx, err, pathCalls, bodyReads,
                   bodyLeft, decoded>>

\* the index is complete: the fields are walked
WalkFields ==
    /\ pc = "index"
    /\ pending = {}
    /\ fields' = flattenFields(arg.type)
    /\ idx' = 1
    /\ pc' = "fields"
    /\ UNCHANGED <<dec, arg, val, pending, query, indexBuilt, err, pathCalls, bodyReads,
                   bodyLeft, decoded>>

\* storeField with the loop going on after a field has failed
storeFieldGoOn(f, x) ==
    /\ val' = SetAt(val, f.path, x.val)
    /\ decoded' = Append(decoded, [field |-> idx, val |-> x.val,
                                   texts |-> fieldTexts(dec, arg.r, f, query)])
    /\ pathCalls' = pathCalls \o x.calls
    /\ bodyReads' = bodyReads + x.read
    /\ bodyLeft' = x.left
    /\ idx' = idx + 1
    /\ err' = IF err = NoErr THEN x.err ELSE err
    /\ UNCHANGED pc

\* the effects of one pass of the field loop with result x for field f
storeField(f, x) ==
    /\ val' = SetAt(val, f.path, x.val)
    /\ decoded' = Append(decoded, [field |-> idx, val |-> x.val,
                                   texts |-> fieldTexts(dec, arg.r, f, query)])
    /\ pathCalls' = pathCalls \o x.calls
    /\ bodyReads' = bodyReads + x.read
    /\ bodyLeft' = x.left
    /\ IF x.err = NoErr
       THEN idx' = idx + 1 /\ UNCHANGED <<pc, err>>
       ELSE /\ idx' = idx
            /\ err' = x.err
            /\ pc' = IF x.err.cause = "panic" THEN "panic" ELSE "done"

\* one pass of the field loop
DecodeField ==
    /\ pc = "fields"
    /\ idx <= Len(fields)
    /\ storeField(fields[idx],
                  decodeField(dec, arg.r, fields[idx], GetAt(val, fields[idx].path),
                              query, bodyLeft))
    /\ UNCHANGED <<dec, arg, pending, query, indexBuilt, fields>>

\* the field loop is over: Decode returns nil
DecodeReturn ==
    /\ pc = "fields"
    /\ idx > Len(fields)
    /\ pc' = "done"
    /\ UNCHANGED <<dec, arg, val, pending, query, indexBuilt, fields, idx, err, pathCalls,
                   bodyReads, bodyLeft, decoded>>

Next == DecodeStart \/ IndexStep \/ WalkFields \/ DecodeField \/ DecodeReturn

---------------------------------------------------------------------------
(* inputs                                                                  *)

\* the strings of at most n symbols over an alphabet
Strs(alphabet, n) == UNION {[1..k -> alphabet] : k \in 0..n}

\* the sequences of 1..n elements of S
SeqsUpTo(S, n) == UNION {[1..k -> S] : k \in 1..n}

\* url.Values: at most MaxKeys of the keys, each with one of the sequences
Requests(keys, valseqs) ==
    UNION {[K -> valseqs] : K \in {K \in SUBSET keys : Cardinality(K) <= MaxKeys}}

\* a value of the type with every field already set by the caller
RECURSIVE Preset(_)
Preset(t) ==
    CASE t.kind = "bool" -> [bool |-> TRUE]
      [] t.kind = "string" -> [str |-> <<"o">>]
      [] t.kind \in {"int", "uint"} -> [int |-> 7]
      [] t.kind = "slice" -> [slice |-> <<Preset(t.elem)>>, nil |-> FALSE]
      [] t.kind = "ptr" -> [ptr |-> <<Preset(t.elem)>>]
      [] t.kind = "struct" ->
            [struct |-> [i \in 1..Len(t.fields) |-> Preset(t.fields[i].type)]]
      [] OTHER -> Zero(t)

\* A scenario fixes the target and the sets the call is drawn from:
\* [kind, type, inits, opts, reqs, paths, accepts, ctypes, bodies]; a request of reqs
\* is [query, orig], orig being the sequence the query encodes where the
\* scenario is a round trip, <<>> otherwise
InitOf(scenarios) ==
    \E sc \in scenarios :
    \E rq \in sc.reqs, o \in sc.opts, v0 \in sc.inits,
       pv \in sc.paths, ac \in sc.accepts, ct \in sc.ctypes, b \in sc.bodies :
        /\ dec = NewDecoder(o)
        /\ arg = [r |-> [query |-> rq.query, path |-> pv, accept |-> ac,
                         contentType |-> ct, body |-> b],
                  kind |-> sc.kind, type |-> sc.type, val0 |-> v0, orig |-> rq.orig]
        /\ val = v0
        /\ pc = "start"
        /\ pending = {}
        /\ query = <<>>
        /\ indexBuilt = FALSE
        /\ fields = <<>>
        /\ idx = 0
        /\ err = NoErr
        /\ pathCalls = <<>>
        /\ bodyReads = 0
        /\ bodyLeft = TRUE
        /\ decoded = <<>>

\* a request that is not the encoding of a sequence
Plain(q) == [query |-> q, orig |-> <<>>]

Scenario(kind, type, inits, opts, keys, valseqs, paths, accepts, bodies) ==
    [kind |-> kind, type |-> type, inits |-> inits, opts |-> opts,
     reqs |-> {Plain(q) : q \in Requests(keys, valseqs)},
     paths |-> paths, accepts |-> accepts, ctypes |-> {<<>>}, bodies |-> bodies]

\* a query-only scenario of a pointer to a struct
QueryScenario(type, inits, opts, keys, valseqs) ==
    Scenario("ptr_struct", type, inits, opts, keys, valseqs, {<<>>}, {<<>>}, {"none"})

\* a query-only scenario of a pointer to a struct with the requests given
RequestScenario(type, inits, opts, reqs) ==
    [kind |-> "ptr_struct", type |-> type, inits |-> inits, opts |-> opts,
     reqs |-> reqs, paths |-> {<<>>}, accepts |-> {<<>>}, ctypes |-> {<<>>},
     bodies |-> {"none"}]

\* struct { ID int8 `oas:"id,path"`; V string `oas:"v,required"`; W int8;
\*          B struct{ N int8 } `oas:",body,json"`; X string `oas:"x"` }
TMain ==
    TStruct(<<Tagged(<<"I", "D">>, <<"id", ",", "path">>, TInt(8)),
              Tagged(<<"V">>, <<"v", ",", "required">>, TString),
              Untagged(<<"W">>, TInt(8)),
              Tagged(<<"B">>, <<",", "body", ",", "json">>,
                     TStruct(<<Untagged(<<"N">>, TInt(8))>>)),
              Tagged(<<"X">>, <<"x">>, TString)>>)

\* struct { V string `oas:"v"`; H string `oas:"h,header"`; X string `oas:"x"` }
THeader ==
    TStruct(<<Tagged(<<"V">>, <<"v">>, TString),
              Tagged(<<"H">>, <<"h", ",", "header">>, TString),
              Tagged(<<"X">>, <<"x">>, TString)>>)

\* struct { V string `oas:"v"`; H []string `oas:"-,header,required"`;
\*          X int8 `oas:"x"` }
THeaderDash ==
    TStruct(<<Tagged(<<"V">>, <<"v">>, TString),
              Tagged(<<"H">>, <<"-", ",", "header", ",", "required">>, TSlice(TString)),
              Tagged(<<"X">>, <<"x">>, TInt(8))>>)

\* struct { H struct{ N int8 } `oas:",header"`; X string `oas:"x"` }
THeaderStruct ==
    TStruct(<<Tagged(<<"H">>, <<",", "header">>, TStruct(<<Untagged(<<"N">>, TInt(8))>>)),
              Tagged(<<"X">>, <<"x">>, TString)>>)

OneValue(values) == [1..1 -> values]

PathSets == {<<>>, [k \in {<<"id">>} |-> <<"1">>], [k \in {<<"id">>} |-> <<"x">>]}

Scenarios ==
    {Scenario(k, TMain, {Zero(TMain), Preset(TMain)}, {<<>>},
              {<<"v">>, <<"w">>, <<"x">>}, OneValue({<<"1">>, <<"x">>}),
              PathSets, {<<>>}, {"json", "xml"}) : k \in {"ptr_struct", "nonptr"}}
    \cup {Scenario("ptr_nonstruct", TInt(8), {Zero(TInt(8)), Preset(TInt(8))}, {<<>>},
                   {<<"v">>, <<"w">>, <<"x">>}, OneValue({<<"1">>, <<"x">>}),
                   PathSets, {<<>>}, {"json"})}
    \cup {QueryScenario(t, {Zero(t)}, {<<>>}, {<<"v">>, <<"h">>, <<"x">>, <<"-">>},
                        OneValue({<<"1">>, <<"x">>}))
            : t \in {THeader, THeaderDash, THeaderStruct}}

Init == InitOf(Scenarios)

Spec == Init /\ [][Next]_vars

---------------------------------------------------------------------------
(* query round trips and names                                             *)

\* a request holding the sequence as occurrences of the key, beside `other`
Exploded(key, seq, other) ==
    [query |-> [k \in {key} |-> seq] @@ other, orig |-> seq]

\* a request holding the sequence joined by d as the one value of the key
Imploded(key, seq, d) ==
    [query |-> [k \in {key} |-> <<Join(seq, d)>>], orig |-> seq]

\* the non-empty sequences of strings over the alphabet
Seqs(alphabet) == SeqsUpTo(Strs(alphabet, MaxStrLen), MaxVals)

\* struct { D []string `oas:"v"`; E []string `oas:"v,explode"` }
TShared ==
    TStruct(<<Tagged(<<"D">>, <<"v">>, TSlice(TString)),
              Tagged(<<"E">>, <<"v", ",", "explode">>, TSlice(TString))>>)

OtherKeys == {<<>>, [k \in {<<"x">>} |-> <<<<"a">>>>]}

ExplodedReqs ==
    {Exploded(<<"v">>, seq, o) : seq \in Seqs({"a", ","}), o \in OtherKeys}
    \cup {Exploded(<<"V">>, seq, <<>>) : seq \in Seqs({"a", ","})}
    \cup {Plain(o) : o \in OtherKeys}

\* struct { V []string `oas:"v,<setting>"` }
TImploded(setting) ==
    TStruct(<<Tagged(<<"V">>, <<"v", ",", setting>>, TSlice(TString))>>)

\* the imploded settings, each with its delimiter and a delimiter of another
ImplodedStyles ==
    {<<"form", ",", "|">>, <<"implode", ",", " ">>,
     <<"spaceDelimited", " ", ",">>, <<"pipeDelimited", "|", ",">>}

ImplodedTypes == {TImploded(st[1]) : st \in ImplodedStyles}

\* struct { F []string `oas:"fields,required"`; G []string `oas:"fields,form,required"`;
\*          H []string `oas:"fields,spaceDelimited"`;
\*          I []string `oas:"fields,pipeDelimited,required"`;
\*          S string `oas:"fields,required"` }
TEmpty ==
    TStruct(<<Tagged(<<"F">>, <<"fields", ",", "required">>, TSlice(TString)),
              Tagged(<<"G">>, <<"fields", ",", "form", ",", "required">>, TSlice(TString)),
              Tagged(<<"H">>, <<"fields", ",", "spaceDelimited">>, TSlice(TString)),
              Tagged(<<"I">>, <<"fields", ",", "pipeDelimited", ",", "required">>,
                     TSlice(TString)),
              Tagged(<<"S">>, <<"fields", ",", "required">>, TString)>>)

\* struct { Ab []string; AB []string `oas:",required"` }
TNames ==
    TStruct(<<Untagged(<<"A", "b">>, TSlice(TString)),
              Tagged(<<"A", "B">>, <<",", "required">>, TSlice(TString))>>)

CaseVariants == {<<"a", "b">>, <<"A", "b">>, <<"a", "B">>, <<"A", "B">>}

\* the values of each spelling of the key, no value under two spellings
VariantValues ==
    [k \in CaseVariants |->
        CASE k = <<"a", "b">> -> <<<<"1">>, <<"2">>>>
          [] k = <<"A", "b">> -> <<<<"3">>>>
          [] k = <<"a", "B">> -> <<<<"4">>, <<"4">>>>
          [] k = <<"A", "B">> -> <<<<"6">>, <<"5">>>>]

\* requests holding some spellings of the key, each with its values
VariantReqs ==
    {Plain([k \in K |-> VariantValues[k]])
        : K \in {K \in SUBSET CaseVariants : Cardinality(K) <= MaxKeys}}

\* struct { M []string `oas:"Ab"`; I []string `oas:"ab,form"`; L []string `oas:"ab"` }
TCase ==
    TStruct(<<Tagged(<<"M">>, <<"A", "b">>, TSlice(TString)),
              Tagged(<<"I">>, <<"a", "b", ",", "form">>, TSlice(TString)),
              Tagged(<<"L">>, <<"a", "b">>, TSlice(TString))>>)

QueryScenarios ==
    {RequestScenario(TCase, {Zero(TCase)}, {<<>>}, VariantReqs)}
    \cup {RequestScenario(TNames, {Zero(TNames)}, {<<>>}, VariantReqs)}
    \cup {RequestScenario(TShared, {Zero(TShared)},
                     {<<>>, <<QueryImplode, QueryStyle(QueryStylePipeDelimited)>>},
                     ExplodedReqs)}
    \cup {RequestScenario(TImploded(st[1]), {Zero(TImploded(st[1]))}, {<<>>},
                          {Imploded(<<"v">>, seq, st[2]) : seq \in Seqs({"a", st[3]})})
             : st \in ImplodedStyles}
    \cup {QueryScenario(TEmpty, {Zero(TEmpty), Preset(TEmpty)}, {<<>>, <<QueryImplode>>},
                        {<<"fields">>, <<"x">>}, OneValue({<<>>, <<"a">>}))}
    \cup {QueryScenario(TNames, {Zero(TNames)}, {<<>>}, CaseVariants,
                        {<<<<"1">>>>, <<<<"2">>, <<"1">>>>})}

InitQuery == InitOf(QueryScenarios)

SpecQuery == InitQuery /\ [][Next]_vars

---------------------------------------------------------------------------
(* deepObject records, required and excluded fields                        *)

\* the key name[sub]
DeepKey(name, sub) == name \o <<"[">> \o sub \o <<"]">>

\* struct { P struct { A string `oas:"a"`; B string `oas:"b"` } `oas:"p,deepObject"` }
TDeep ==
    TStruct(<<Tagged(<<"P">>, <<"p", ",", "deepObject">>,
                     TStruct(<<Tagged(<<"A">>, <<"a">>, TString),
                               Tagged(<<"B">>, <<"b">>, TString)>>))>>)

\* keys of the form p[sub], in another case, of another prefix, unclosed, bare
DeepKeys ==
    {DeepKey(<<"p">>, <<"a">>), DeepKey(<<"p">>, <<"b">>), DeepKey(<<"P">>, <<"a">>),
     DeepKey(<<"q">>, <<"a">>), <<"p", "[", "a">>, <<"p">>}

\* struct { P struct { A string `oas:"a,required"`; B string `oas:"b"` }
\*            `oas:"p,deepObject"` }
TDeepRequired ==
    TStruct(<<Tagged(<<"P">>, <<"p", ",", "deepObject">>,
                     TStruct(<<Tagged(<<"A">>, <<"a", ",", "required">>, TString),
                               Tagged(<<"B">>, <<"b">>, TString)>>))>>)

\* struct { S string `oas:"s,required"`; Q *int8 `oas:"q,required"`;
\*          L []string `oas:"l,required"`;
\*          P struct { A string `oas:"a"` } `oas:"p,deepObject,required"` }
TRequired ==
    TStruct(<<Tagged(<<"S">>, <<"s", ",", "required">>, TString),
              Tagged(<<"Q">>, <<"q", ",", "required">>, TPtr(TInt(8))),
              Tagged(<<"L">>, <<"l", ",", "required">>, TSlice(TString)),
              Tagged(<<"P">>, <<"p", ",", "deepObject", ",", "required">>,
                     TStruct(<<Tagged(<<"A">>, <<"a">>, TString)>>))>>)

\* struct { I string `oas:"-"`; N struct { C string `oas:"c"` } `oas:"-"`;
\*          P struct { D string `oas:"-"`; E string `oas:"e"` } `oas:"p,deepObject"` }
TDash ==
    TStruct(<<Tagged(<<"I">>, <<"-">>, TString),
              Tagged(<<"N">>, <<"-">>, TStruct(<<Tagged(<<"C">>, <<"c">>, TString)>>)),
              Tagged(<<"P">>, <<"p", ",", "deepObject">>,
                     TStruct(<<Tagged(<<"D">>, <<"-">>, TString),
                               Tagged(<<"E">>, <<"e">>, TString)>>))>>)

DeepScenarios ==
    {QueryScenario(TDeep, {Zero(TDeep), Preset(TDeep)}, {<<>>}, DeepKeys,
                   OneValue({<<"X">>, <<"Y">>}))}
    \cup {QueryScenario(TDeepRequired, {Zero(TDeepRequired)}, {<<>>},
                        {DeepKey(<<"p">>, <<"a">>), DeepKey(<<"p">>, <<"b">>), <<"a">>},
                        OneValue({<<"1">>}))}
    \cup {QueryScenario(TRequired, {Zero(TRequired)}, {<<>>, <<QueryImplode>>},
                        {<<"s">>, <<"q">>, <<"l">>, DeepKey(<<"p">>, <<"a">>)},
                        OneValue({<<"1">>}))}
    \cup {QueryScenario(TDash, {Zero(TDash), Preset(TDash)}, {<<>>},
                        {<<"-">>, <<"c">>, DeepKey(<<"p">>, <<"-">>),
                         DeepKey(<<"p">>, <<"e">>)},
                        OneValue({<<"x">>}))}

InitDeep == InitOf(DeepScenarios)

SpecDeep == InitDeep /\ [][Next]_vars

---------------------------------------------------------------------------
(* body and path origins                                                   *)

\* a scenario of a pointer to a zero struct with the request's path values,
\* Accept and Content-Type headers and body given
OriginScenario(type, keys, paths, accepts, ctypes, bodies) ==
    [kind |-> "ptr_struct", type |-> type, inits |-> {Zero(type)}, opts |-> {<<>>},
     reqs |-> {Plain(q) : q \in Requests(keys, OneValue({<<"5">>}))},
     paths |-> paths, accepts |-> accepts, ctypes |-> ctypes, bodies |-> bodies]

\* type Entity struct { N int8 }
TEntity == TStruct(<<Untagged(<<"N">>, TInt(8))>>)

\* struct { E Entity `oas:"<tag>"` }
TBody(tag) == TStruct(<<Tagged(<<"E">>, tag, TEntity)>>)

BodyTags == {<<",", "body">>, <<",", "body", ",", "json">>, <<",", "body", ",", "xml">>}

\* values of the Accept and of the Content-Type header; <<>> is no header
MediaTypes ==
    {<<>>, <<"application/json">>, <<"Application/XML">>, <<"text/plain">>,
     <<"application/json", ";", "charset">>}

\* struct { A Entity `oas:",body,json"`; B Entity `oas:"<tag>"` }
TTwoBodies(tag) ==
    TStruct(<<Tagged(<<"A">>, <<",", "body", ",", "json">>, TEntity),
              Tagged(<<"B">>, tag, TEntity)>>)

SecondBodyTags ==
    {<<",", "body", ",", "json">>, <<",", "body">>, <<"-", ",", "body", ",", "json">>}

\* struct { ID int8 `oas:"id,path"`; Q string `oas:"id"`;
\*          Name string `oas:"name,path"`; Skip string `oas:"-,path"` }
TPath ==
    TStruct(<<Tagged(<<"I", "D">>, <<"id", ",", "path">>, TInt(8)),
              Tagged(<<"Q">>, <<"id">>, TString),
              Tagged(<<"N", "a", "m", "e">>, <<"name", ",", "path">>, TString),
              Tagged(<<"S", "k", "i", "p">>, <<"-", ",", "path">>, TString)>>)

\* r.PathValue: the wildcards of the matched pattern with their values
PathValues ==
    UNION {[K -> {<<"1">>, <<"x">>}] : K \in SUBSET {<<"id">>, <<"name">>, <<"-">>}}

\* body tags with a format that is neither json nor xml
OtherFormatTags ==
    {<<",", "body", ",", "yaml">>, <<",", "yaml", ",", "body">>,
     <<",", "body", ",", "JSON">>}

OriginScenarios ==
    {OriginScenario(TBody(tag), {}, {<<>>}, MediaTypes, {<<>>}, {"json", "xml"})
        : tag \in OtherFormatTags}
    \cup {OriginScenario(TBody(tag), {}, {<<>>}, MediaTypes, MediaTypes, {"json", "xml"})
        : tag \in BodyTags}
    \cup {OriginScenario(TTwoBodies(tag), {<<"a">>}, {<<>>},
                         {<<>>, <<"application/json">>}, {<<>>}, {"json", "xml", "none"})
             : tag \in SecondBodyTags}
    \cup {OriginScenario(TPath, {<<"id">>, <<"name">>, <<"-">>}, PathValues,
                         {<<>>}, {<<>>}, {"none"})}

InitOrigins == InitOf(OriginScenarios)

SpecOrigins == InitOrigins /\ [][Next]_vars

---------------------------------------------------------------------------
(* the coercer: custom decoders and scalars                                *)

\* struct { Sort; P *Sort `oas:"p"` }
TSorted ==
    TStruct(<<Untagged(<<"S", "o", "r", "t">>, TSort),
              Tagged(<<"P">>, <<"p">>, TPtr(TSort))>>)

\* struct { Sort `oas:"sort,deepObject"`; X string `oas:"x"` }
TSortDeep ==
    TStruct(<<Tagged(<<"S", "o", "r", "t">>, <<"s", "o", "r", "t", ",", "deepObject">>, TSort),
              Tagged(<<"X">>, <<"x">>, TString)>>)

\* occurrences of a sort key: well formed, of three words, and two of them
SortValues ==
    {<<<<"n">>>>, <<<<"n", ",", "desc">>>>, <<<<"n", ",", "a", ",", "b">>>>,
     <<<<"m", ",", "asc">>, <<"n">>>>}

\* the widths of the integer types of the model
Widths == {8, 16}

\* strconv.FormatInt(n, 10), as fmt.Sprint prints an integer
RECURSIVE FormatUint(_)
FormatUint(n) ==
    IF n < 10 THEN <<CHOOSE c \in Digits : DigitVal(c) = n>>
    ELSE Append(FormatUint(n \div 10), CHOOSE c \in Digits : DigitVal(c) = n % 10)

FormatInt(n) == IF n < 0 THEN <<"-">> \o FormatUint(0 - n) ELSE FormatUint(n)

\* strconv.FormatBool
FormatBool(b) == IF b THEN <<"true">> ELSE <<"false">>

\* fmt.Sprint(v) of a scalar value
Sprint(v) ==
    IF "int" \in DOMAIN v THEN FormatInt(v.int)
    ELSE IF "bool" \in DOMAIN v THEN FormatBool(v.bool)
    ELSE v.str

\* struct { V T `oas:"v"` }
TScalar(T) == TStruct(<<Tagged(<<"V">>, <<"v">>, T)>>)

\* the values of an integer type next to its bounds and to zero
MinInt(t) == IF t.kind = "uint" THEN 0 ELSE 0 - Pow2(t.bits - 1)
MaxInt(t) == IF t.kind = "uint" THEN Pow2(t.bits) - 1 ELSE Pow2(t.bits - 1) - 1

\* the values of the scalar type the model draws: every value of a bool and
\* of an 8-bit integer, the values at the ends of a 16-bit one, the strings
ValuesOf(t) ==
    CASE t.kind = "bool" -> {[bool |-> b] : b \in BOOLEAN}
      [] t.kind = "string" -> {[str |-> x] : x \in Strs({"a", ",", " "}, MaxStrLen)}
      [] t.kind \in {"int", "uint"} /\ t.bits = 8 ->
            {[int |-> n] : n \in MinInt(t)..MaxInt(t)}
      [] OTHER ->
            {[int |-> n] : n \in (MinInt(t)..(MinInt(t) + 2)) \cup ((MaxInt(t) - 2)..MaxInt(t))}

ScalarTypes ==
    {TBool, TString} \cup {TInt(w) : w \in Widths} \cup {TUint(w) : w \in Widths}

\* a request holding the text fmt.Sprint prints of v as the one value of the key
Printed(key, v) == [query |-> [k \in {key} |-> <<Sprint(v)>>], orig |-> <<v>>]

\* decimal texts out of the range of an integer type, or next to its ends
IntTexts(t) ==
    {FormatInt(n) : n \in ((MinInt(t) - 2)..(MinInt(t) + 1)) \cup ((MaxInt(t) - 1)..(MaxInt(t) + 2))}
    \cup {<<"+">> \o FormatInt(MaxInt(t)), <<"+">> \o FormatInt(MaxInt(t) + 1),
          <<"0", "0">> \o FormatInt(MaxInt(t)), FormatInt(10 * MaxInt(t)),
          <<"-", "0">>}

CoerceScenarios ==
    {QueryScenario(TSorted, {Zero(TSorted), Preset(TSorted)}, {<<>>, <<QueryImplode>>},
                   {<<"s", "o", "r", "t">>, <<"p">>}, SortValues)}
    \cup {QueryScenario(TSortDeep, {Zero(TSortDeep)}, {<<>>},
                        {<<"s", "o", "r", "t">>, DeepKey(<<"s", "o", "r", "t">>, <<"n">>),
                         <<"x">>},
                        {<<<<"n">>>>})}
    \cup {RequestScenario(TScalar(t), {Zero(TScalar(t)), Preset(TScalar(t))},
                          {<<>>, <<QueryImplode>>},
                          {Printed(<<"v">>, v) : v \in ValuesOf(t)})
             : t \in ScalarTypes}
    \cup {RequestScenario(TScalar(t), {Preset(TScalar(t))}, {<<>>},
                          {Plain([k \in {<<"v">>} |-> <<x>>]) : x \in IntTexts(t)})
             : t \in ScalarTypes \ {TBool, TString}}

InitCoerce == InitOf(CoerceScenarios)

SpecCoerce == InitCoerce /\ [][Next]_vars

---------------------------------------------------------------------------
(* the settings of a tag and the policy of the Decoder                     *)

\* struct { A string `oas:"a"`; V string `oas:"v,<settings>"`; Z string `oas:"z"` }
TSetting(settings) ==
    TStruct(<<Tagged(<<"A">>, <<"a">>, TString),
              Tagged(<<"V">>, <<"v", ",">> \o settings, TString),
              Tagged(<<"Z">>, <<"z">>, TString)>>)

\* settings with a part that the switch of parseQueryFieldConf does not know,
\* TestDecodeInvalidTag's `expanded` first
InvalidSettings ==
    {<<"expanded">>, <<>>, <<"json">>, <<"required", ",", "expanded">>,
     <<"expanded", ",", "required">>, <<"query", ",", "expanded">>}

\* settings that the switch knows, one of them after TrimSpace
ValidSettings == {<<"required">>, <<" ", "explode">>, <<"query", ",", "form">>}

\* struct { N struct { A string `oas:"a"` } `oas:"n,expanded"`; Z string `oas:"z"` }
TSettingNested ==
    TStruct(<<Tagged(<<"N">>, <<"n", ",", "expanded">>,
                     TStruct(<<Tagged(<<"A">>, <<"a">>, TString)>>)),
              Tagged(<<"Z">>, <<"z">>, TString)>>)

\* struct { D struct { A string `oas:"a,expanded"` } `oas:"d,deepObject"`;
\*          Z string `oas:"z"` }
TSettingSub ==
    TStruct(<<Tagged(<<"D">>, <<"d", ",", "deepObject">>,
                     TStruct(<<Tagged(<<"A">>, <<"a", ",", "expanded">>, TString)>>)),
              Tagged(<<"Z">>, <<"z">>, TString)>>)

\* struct { A string `oas:"a"` }
TSub == TStruct(<<Tagged(<<"A">>, <<"a">>, TString)>>)

\* struct { P *int8 `oas:"p"`; S []string `oas:"s"`; V string `oas:"v,form"`;
\*          D struct { A string `oas:"a"` } `oas:"d,deepObject"`;
\*          Q *struct { A string `oas:"a"` } `oas:"q,deepObject"` }
TOptional ==
    TStruct(<<Tagged(<<"P">>, <<"p">>, TPtr(TInt(8))),
              Tagged(<<"S">>, <<"s">>, TSlice(TString)),
              Tagged(<<"V">>, <<"v", ",", "form">>, TString),
              Tagged(<<"D">>, <<"d", ",", "deepObject">>, TSub),
              Tagged(<<"Q">>, <<"q", ",", "deepObject">>, TPtr(TSub))>>)

OptionalKeys ==
    {<<"p">>, <<"s">>, <<"v">>, DeepKey(<<"d">>, <<"a">>), DeepKey(<<"q">>, <<"a">>),
     <<"x">>}

\* struct { Ids []int8; T []int8 `oas:"t,<settings>"` }; without settings
\* the second field is Untagged
TPolicy(settings) ==
    TStruct(<<Untagged(<<"I", "d", "s">>, TSlice(TInt(8))),
              IF settings = <<>> THEN Untagged(<<"T">>, TSlice(TInt(8)))
              ELSE Tagged(<<"T">>, <<"t", ",">> \o settings, TSlice(TInt(8)))>>)

\* the style and explode settings of a tag, alone and two at a time
PolicySettings ==
    {<<>>, <<"explode">>, <<"implode">>, <<"form">>, <<"pipeDelimited">>,
     <<"spaceDelimited">>, <<"pipeDelimited", ",", "explode">>,
     <<"explode", ",", "pipeDelimited">>, <<"implode", ",", "explode">>}

\* NewDecoder(opts...): no option, one, and two in either order
PolicyOpts ==
    {<<>>, <<QueryImplode>>, <<QueryExplode>>, <<QueryStyle(QueryStylePipeDelimited)>>,
     <<QueryImplode, QueryExplode>>, <<QueryExplode, QueryImplode>>,
     <<QueryStyle(QueryStylePipeDelimited), QueryImplode>>,
     <<QueryImplode, QueryStyle(QueryStyleSpaceDelimited)>>,
     <<QueryStyle(QueryStylePipeDelimited), QueryStyle(QueryStyleForm)>>}

\* the values of ids and t: one value, a list of each style, two occurrences
PolicyValues ==
    {<<<<"1">>>>, <<<<"1", ",", "2", ",", "3">>>>, <<<<"1", "|", "2">>>>,
     <<<<"1", " ", "2">>>>, <<<<"1">>, <<"2">>>>}

\* style and explode settings with the origin written before, between and
\* after them
OriginSettings ==
    {<<"query", ",", "form", ",", "explode">>, <<"form", ",", "query", ",", "explode">>,
     <<"form", ",", "explode", ",", "query">>, <<"query", ",", "explode", ",", "form">>,
     <<"explode", ",", "query", ",", "form">>, <<"query", ",", "explode">>}

\* a request holding the sequence joined by d as the last occurrence of the
\* key, after earlier occurrences
Repeated(key, earlier, seq, d) ==
    [query |-> [k \in {key} |-> earlier \o <<Join(seq, d)>>], orig |-> seq]

\* the earlier occurrences: plain, empty and holding delimiter d
Earlier(d) == SeqsUpTo({<<"z">>, <<>>, <<"y", d, "z">>}, MaxVals)

RepeatedReqs(d) ==
    {Repeated(<<"v">>, e, seq, d)
        : e \in Earlier(d), seq \in SeqsUpTo({<<>>, <<"a">>, <<"b">>}, MaxVals)}

PolicyScenarios ==
    {RequestScenario(TImploded(st[1]), {Zero(TImploded(st[1])), Preset(TImploded(st[1]))},
                     {<<>>}, RepeatedReqs(st[2]))
        : st \in ImplodedStyles}
    \cup {QueryScenario(TPolicy(st), {Zero(TPolicy(st))}, {<<>>, <<QueryImplode>>},
                   {<<"i", "d", "s">>, <<"t">>}, PolicyValues)
        : st \in OriginSettings}
    \cup {QueryScenario(TOptional, {Zero(TOptional), Preset(TOptional)},
                   {<<>>, <<QueryImplode>>}, OptionalKeys, {<<<<"1">>>>})}
    \cup {QueryScenario(TPolicy(st), {Zero(TPolicy(st))}, {o},
                        {<<"i", "d", "s">>, <<"t">>}, PolicyValues)
             : st \in PolicySettings, o \in PolicyOpts}
    \cup {QueryScenario(TSetting(st), {Zero(TSetting(st)), Preset(TSetting(st))},
                   {<<>>, <<QueryImplode>>},
                   {<<"a">>, <<"v">>, <<"z">>}, {<<<<"x">>>>})
        : st \in InvalidSettings \cup ValidSettings}
    \cup {QueryScenario(TSettingNested, {Zero(TSettingNested)}, {<<>>},
                        {<<"a">>, <<"n">>, <<"z">>}, {<<<<"x">>>>})}
    \cup {QueryScenario(TSettingSub, {Zero(TSettingSub)}, {<<>>},
                        {DeepKey(<<"d">>, <<"a">>), <<"z">>}, {<<<<"x">>>>})}

InitPolicy == InitOf(PolicyScenarios)

SpecPolicy == InitPolicy /\ [][Next]_vars

---------------------------------------------------------------------------
(* concurrent calls of Decode on one Decoder                               *)
(* Every variable but dec holds one value per call; a call's arguments     *)
(* hold the Decoder it was called on, Decode having a value receiver.      *)

Calls == {"a", "b"}

\* ownIndex with the map of call "a" read by every call
firstIndex(q, c) == q["a"]

\* query := make(map[string][]string, ...): the map is local to the call
ownIndex(q, c) == q[c]

ConcStart ==
    \E c \in Calls :
        /\ pc[c] = "start"
        /\ IF usageError(arg[c].kind) # NoErr
           THEN /\ err' = [err EXCEPT ![c] = usageError(arg[c].kind)]
                /\ pc' = [pc EXCEPT ![c] = "done"]
                /\ UNCHANGED <<pending, indexBuilt>>
           ELSE /\ pc' = [pc EXCEPT ![c] = "index"]
                /\ pending' = [pending EXCEPT ![c] = DOMAIN arg[c].r.query]
                /\ indexBuilt' = [indexBuilt EXCEPT ![c] = TRUE]
                /\ UNCHANGED err
        /\ UNCHANGED <<dec, arg, val, query, fields, idx, pathCalls, bodyReads, bodyLeft,
                       decoded>>

ConcIndex ==
    \E c \in Calls :
        /\ pc[c] = "index"
        /\ \E qk \in pending[c] :
              /\ query' = [query EXCEPT ![c] = indexPut(query[c], arg[c].r.query, qk)]
              /\ pending' = [pending EXCEPT ![c] = pending[c] \ {qk}]
        /\ UNCHANGED <<dec, arg, val, pc, indexBuilt, fields, idx, err, pathCalls,
                       bodyReads, bodyLeft, decoded>>

ConcWalk ==
    \E c \in Calls :
        /\ pc[c] = "index"
        /\ pending[c] = {}
        /\ fields' = [fields EXCEPT ![c] = flattenFields(arg[c].type)]
        /\ idx' = [idx EXCEPT ![c] = 1]
        /\ pc' = [pc EXCEPT ![c] = "fields"]
        /\ UNCHANGED <<dec, arg, val, pending, query, indexBuilt, err, pathCalls,
                       bodyReads, bodyLeft, decoded>>

\* the effects of one pass of the field loop of call c
concStore(c, f, x) ==
    /\ val' = [val EXCEPT ![c] = SetAt(val[c], f.path, x.val)]
    /\ decoded' = [decoded EXCEPT ![c] =
                        Append(decoded[c],
                               [field |-> idx[c], val |-> x.val,
                                texts |-> fieldTexts(arg[c].d, arg[c].r, f,
                                                     ownIndex(query, c))])]
    /\ pathCalls' = [pathCalls EXCEPT ![c] = pathCalls[c] \o x.calls]
    /\ bodyReads' = [bodyReads EXCEPT ![c] = bodyReads[c] + x.read]
    /\ bodyLeft' = [bodyLeft EXCEPT ![c] = x.left]
    /\ IF x.err = NoErr
       THEN idx' = [idx EXCEPT ![c] = idx[c] + 1] /\ UNCHANGED <<pc, err>>
       ELSE /\ err' = [err EXCEPT ![c] = x.err]
            /\ pc' = [pc EXCEPT ![c] = "done"]
            /\ UNCHANGED idx

ConcField ==
    \E c \in Calls :
        /\ pc[c] = "fields"
        /\ idx[c] <= Len(fields[c])
        /\ concStore(c, fields[c][idx[c]],
                     decodeField(arg[c].d, arg[c].r, fields[c][idx[c]],
                                 GetAt(val[c], fields[c][idx[c]].path),
                                 ownIndex(query, c), bodyLeft[c]))
        /\ UNCHANGED <<dec, arg, pending, query, indexBuilt, fields>>

ConcReturn ==
    \E c \in Calls :
        /\ pc[c] = "fields"
        /\ idx[c] > Len(fields[c])
        /\ pc' = [pc EXCEPT ![c] = "done"]
        /\ UNCHANGED <<dec, arg, val, pending, query, indexBuilt, fields, idx, err,
                       pathCalls, bodyReads, bodyLeft, decoded>>

NextConc == ConcStart \/ ConcIndex \/ ConcWalk \/ ConcField \/ ConcReturn

\* struct { Ids []int8; T []string `oas:"t,pipeDelimited"`; V string `oas:"v,required"` }
TShare ==
    TStruct(<<Untagged(<<"I", "d", "s">>, TSlice(TInt(8))),
              Tagged(<<"T">>, <<"t", ",", "pipeDelimited">>, TSlice(TString)),
              Tagged(<<"V">>, <<"v", ",", "required">>, TString)>>)

\* the requests of the calls: lower-case keys, so that the index of a request
\* does not depend on the order the map is ranged over
ShareRequests ==
    {[k \in {<<"v">>} |-> <<<<"x">>>>],
     [k \in {<<"i", "d", "s">>, <<"v">>} |-> <<<<"1", ",", "2">>>>],
     [k \in {<<"i", "d", "s">>, <<"t">>} |-> <<<<"1">>, <<"2">>>>],
     [k \in {<<"t">>, <<"v">>} |-> <<<<"a", "|", "b">>>>]}

\* the arguments of one call on Decoder d: a request and a target of its own
ShareArgs(d) ==
    {[d |-> d,
      r |-> [query |-> q, path |-> <<>>, accept |-> <<>>, contentType |-> <<>>,
             body |-> "none"],
      kind |-> "ptr_struct", type |-> TShare, val0 |-> v0, orig |-> <<>>]
        : q \in ShareRequests, v0 \in {Zero(TShare), Preset(TShare)}}

ShareOpts == {<<>>, <<QueryImplode>>}

InitConc ==
    \E o \in ShareOpts :
    \E a \in [Calls -> ShareArgs(NewDecoder(o))] :
        /\ dec = NewDecoder(o)
        /\ arg = a
        /\ val = [c \in Calls |-> a[c].val0]
        /\ pc = [c \in Calls |-> "start"]
        /\ pending = [c \in Calls |-> {}]
        /\ query = [c \in Calls |-> <<>>]
        /\ indexBuilt = [c \in Calls |-> FALSE]
        /\ fields = [c \in Calls |-> <<>>]
        /\ idx = [c \in Calls |-> 0]
        /\ err = [c \in Calls |-> NoErr]
        /\ pathCalls = [c \in Calls |-> <<>>]
        /\ bodyReads = [c \in Calls |-> 0]
        /\ bodyLeft = [c \in Calls |-> TRUE]
        /\ decoded = [c \in Calls |-> <<>>]

SpecConc == InitConc /\ [][NextConc]_vars

---------------------------------------------------------------------------
(* the shapes of fields: nested records, unexported fields, bytes, maps    *)

\* struct { A string `oas:"a"`;
\*          N struct { B string `oas:"b"`; M struct { C string `oas:"c"` };
\*                     D string `oas:"d"` };
\*          Sort;
\*          P struct { E string `oas:"e"` } `oas:"p,deepObject"`;
\*          J struct { N int8 } `oas:",body,json"`;
\*          Z string `oas:"z"` }
TWalk ==
    TStruct(<<Tagged(<<"A">>, <<"a">>, TString),
              Untagged(<<"N">>,
                  TStruct(<<Tagged(<<"B">>, <<"b">>, TString),
                            Untagged(<<"M">>, TStruct(<<Tagged(<<"C">>, <<"c">>, TString)>>)),
                            Tagged(<<"D">>, <<"d">>, TString)>>)),
              Untagged(<<"S", "o", "r", "t">>, TSort),
              Tagged(<<"P">>, <<"p", ",", "deepObject">>,
                     TStruct(<<Tagged(<<"E">>, <<"e">>, TString)>>)),
              Tagged(<<"J">>, <<",", "body", ",", "json">>, TEntity),
              Tagged(<<"Z">>, <<"z">>, TString)>>)

WalkKeys ==
    {<<"a">>, <<"b">>, <<"c">>, <<"d">>, <<"e">>, <<"n">>, <<"N">>,
     DeepKey(<<"p">>, <<"e">>), <<"z">>}

\* struct { a string `oas:"a"`;
\*          N struct { b string `oas:"b"`; C string `oas:"c"` };
\*          P struct { e string `oas:"e"`; F string `oas:"f"` } `oas:"p,deepObject"`;
\*          n struct { D string `oas:"d"` } }
THidden ==
    TStruct(<<Unexported(<<"a">>, <<"a">>, TString),
              Untagged(<<"N">>,
                  TStruct(<<Unexported(<<"b">>, <<"b">>, TString),
                            Tagged(<<"C">>, <<"c">>, TString)>>)),
              Tagged(<<"P">>, <<"p", ",", "deepObject">>,
                  TStruct(<<Unexported(<<"e">>, <<"e">>, TString),
                            Tagged(<<"F">>, <<"f">>, TString)>>)),
              [Unexported(<<"n">>, <<>>, TStruct(<<Tagged(<<"D">>, <<"d">>, TString)>>))
                  EXCEPT !.hasTag = FALSE]>>)

HiddenKeys ==
    {<<"a">>, <<"b">>, <<"c">>, <<"d">>, <<"n">>, DeepKey(<<"p">>, <<"e">>),
     DeepKey(<<"p">>, <<"f">>)}

\* struct { B []byte `oas:"b"`; P *[]byte `oas:"p"`; I []uint8 `oas:"i,pipeDelimited"` }
TBytes ==
    TStruct(<<Tagged(<<"B">>, <<"b">>, TSlice(TUint(8))),
              Tagged(<<"P">>, <<"p">>, TPtr(TSlice(TUint(8)))),
              Tagged(<<"I">>, <<"i", ",", "pipeDelimited">>, TSlice(TUint(8)))>>)

\* occurrences of a key: text, a numeral, a numeral out of range, the empty
\* value, values holding delimiters, two occurrences
ByteValues ==
    {<<<<"a", "b">>>>, <<<<"7">>>>, <<<<"3", "0", "0">>>>, <<<<>>>>,
     <<<<"a", ",", "b">>>>, <<<<"a", "|", "b">>>>, <<<<"a">>, <<"b", "c">>>>}

\* struct { A string `oas:"a"`; U T `oas:"u"`; Z string `oas:"z"` }
TUnknown(T) ==
    TStruct(<<Tagged(<<"A">>, <<"a">>, TString),
              Tagged(<<"U">>, <<"u">>, T),
              Tagged(<<"Z">>, <<"z">>, TString)>>)

\* types setValue has no case for: a map, a record behind a pointer, and
\* slices and pointers of them
UnknownTypes ==
    {TMap, TPtr(TSub), TPtr(TMap), TPtr(TPtr(TSub)), TSlice(TMap), TSlice(TPtr(TSub))}

\* struct { A string `oas:"a"`; V T `oas:"v"`; Z string `oas:"z"` }
TCoerced(T) ==
    TStruct(<<Tagged(<<"A">>, <<"a">>, TString),
              Tagged(<<"V">>, <<"v">>, T),
              Tagged(<<"Z">>, <<"z">>, TString)>>)

\* a scalar, slices and pointers that a value may fail to be coerced to
CoercedTypes ==
    {TInt(8), TBool, TPtr(TInt(8)), TPtr(TPtr(TInt(8))), TSlice(TInt(8)),
     TPtr(TSlice(TInt(8))), TSlice(TPtr(TInt(8)))}

\* occurrences of a key: numerals, text, a numeral out of range, a numeral
\* and then text
CoercedValues ==
    {<<<<"1">>>>, <<<<"x">>>>, <<<<"3", "0", "0">>>>, <<<<"1">>, <<"2">>>>, <<<<"1">>, <<"x">>>>}

\* struct { S string `oas:"s"`; N int8 `oas:"n"`; Q *int8 `oas:"q"`; T string `oas:"t"` }
TPair ==
    TStruct(<<Tagged(<<"S">>, <<"s">>, TString),
              Tagged(<<"N">>, <<"n">>, TInt(8)),
              Tagged(<<"Q">>, <<"q">>, TPtr(TInt(8))),
              Tagged(<<"T">>, <<"t">>, TString)>>)

\* struct { P T `oas:"p,deepObject"`; Z string `oas:"z"` }
TDeepCoerced(T) ==
    TStruct(<<Tagged(<<"P">>, <<"p", ",", "deepObject">>, T),
              Tagged(<<"Z">>, <<"z">>, TString)>>)

PairKeys ==
    {DeepKey(<<"p">>, <<"s">>), DeepKey(<<"p">>, <<"n">>), DeepKey(<<"p">>, <<"q">>),
     DeepKey(<<"p">>, <<"t">>)}

ShapeScenarios ==
    {QueryScenario(TCoerced(T), {Zero(TCoerced(T)), Preset(TCoerced(T))},
                   {<<>>, <<QueryImplode>>}, {<<"a">>, <<"v">>}, CoercedValues)
        : T \in CoercedTypes}
    \cup
    {QueryScenario(TDeepCoerced(T), {Zero(TDeepCoerced(T)), Preset(TDeepCoerced(T))},
                   {<<>>}, PairKeys, {<<<<"1">>>>, <<<<"x">>>>})
        : T \in {TPair, TPtr(TPair)}}
    \cup
    {QueryScenario(TUnknown(T), {Zero(TUnknown(T)), Preset(TUnknown(T))},
                   {<<>>, <<QueryImplode>>},
                   {<<"a">>, <<"u">>, <<"z">>}, {<<<<"x">>>>, <<<<>>, <<"y">>>>})
        : T \in UnknownTypes}
    \cup {QueryScenario(TBytes, {Zero(TBytes), Preset(TBytes)}, {<<>>, <<QueryImplode>>},
                   {<<"b">>, <<"p">>, <<"i">>}, ByteValues)}
    \cup {QueryScenario(THidden, {Zero(THidden), Preset(THidden)}, {<<>>, <<QueryImplode>>},
                   HiddenKeys, {<<<<"x">>>>})}
    \cup {Scenario("ptr_struct", TWalk, {Zero(TWalk)},
              {<<>>, <<QueryStyle(QueryStyleDeepObject)>>},
              WalkKeys, {<<<<"x">>>>}, {<<>>}, {<<>>}, {"json"})}

InitShape == InitOf(ShapeScenarios)

SpecShape == InitShape /\ [][Next]_vars

---------------------------------------------------------------------------
(* properties of Decode                                                    *)

Returned == pc = "done"
Succeeded == pc = "done" /\ err = NoErr
Failed == pc = "done" /\ err # NoErr

\* the value the walker's field j holds now, and held before the call
FieldVal(j) == GetAt(val, fields[j].path)
FieldVal0(j) == GetAt(arg.val0, fields[j].path)

\* C1: Decode of a non-pointer, or of a pointer to a non-struct, returns the
\* usage error at once: the path-value provider is not called, the body is
\* not read, the query index is not built and the target is not modified.
C1_UsageErrorTouchesNothing ==
    arg.kind # "ptr_struct" =>
        /\ pc \in {"start", "done"}
        /\ pathCalls = <<>>
        /\ bodyReads = 0 /\ bodyLeft
        /\ ~indexBuilt /\ query = <<>>
        /\ val = arg.val0
        /\ pc = "done" =>
              err.kind = IF arg.kind = "nonptr" THEN "non-pointer"
                         ELSE "pointer to non-struct"

C1_Witness ==
    /\ pc = "done"
    /\ arg.kind = "ptr_nonstruct"
    /\ err.kind = "pointer to non-struct"
    /\ DOMAIN arg.r.query # {}

\* the names the path-value provider is called with for the fields 1..k
RECURSIVE PathNames(_)
PathNames(k) ==
    IF k = 0 THEN <<>>
    ELSE IF fields[k].origin = originPath /\ fields[k].conf.name # <<"-">>
    THEN Append(PathNames(k - 1), fields[k].conf.name)
    ELSE PathNames(k - 1)

\* the kinds of error the binding of a field of the origin can return
ErrKindsOf(origin) ==
    CASE origin = originQuery -> {"required", "query param", "invalid part"}
      [] origin = originPath -> {"path"}
      [] origin = originBody -> {"decode body", "unsupported body"}
      [] origin = originHeader -> {"header not implemented"}

\* C2: the fields are bound in walker order and Decode fails fast without
\* rollback: when field k is the first to fail, Decode returns that field's
\* error, the fields before k keep what was decoded into them, the fields
\* after k are as before the call, and no later provider call or body read
\* happens.
C2_FailFastNoRollback ==
    /\ \A j \in 1..Len(decoded) : decoded[j].field = j
    /\ pc = "fields" => Len(decoded) = idx - 1
    /\ Failed /\ arg.kind = "ptr_struct" =>
          /\ idx \in 1..Len(fields)
          /\ Len(decoded) = idx
          /\ err.kind \in ErrKindsOf(fields[idx].origin)
          /\ err.kind \in {"required", "query param", "path"} =>
                err.name = fields[idx].conf.name
          /\ \A j \in 1..(idx - 1) : FieldVal(j) = decoded[j].val
          /\ \A j \in (idx + 1)..Len(fields) : FieldVal(j) = FieldVal0(j)
          /\ pathCalls = PathNames(idx)
          /\ bodyReads <= Cardinality({j \in 1..idx : fields[j].origin = originBody})

C2_Witness ==
    /\ Failed
    /\ Len(fields) = 5 /\ idx = 3
    /\ FieldVal(1) # FieldVal0(1) /\ FieldVal(2) # FieldVal0(2)
    /\ FieldVal0(5) = [str |-> <<"o">>]
    /\ <<"x">> \in DOMAIN arg.r.query

\* the []string value holding the sequence
StringSlice(seq) == [slice |-> [i \in 1..Len(seq) |-> [str |-> seq[i]]], nil |-> FALSE]

\* the request's keys that are the name up to the case of the letters
CaseClass(name) == {k \in DOMAIN arg.r.query : ToLower(k) = ToLower(name)}

\* the request holds key k and no other key of k's case class
OnlyVariant(k, name) == CaseClass(name) = {k} /\ (k = name \/ ToLower(k) = name)

\* the query policy of the walker's field j
FieldConf(j) == parseQueryFieldConf(dec, fields[j].conf)

\* the walker's field j is a query-origin field bound by name, not a deepObject
QueryField(j) ==
    /\ fields[j].origin = originQuery
    /\ fields[j].conf.name # <<"-">>
    /\ ~FieldConf(j).err
    /\ FieldConf(j).style # QueryStyleDeepObject

Walked == pc \in {"fields", "done"} /\ arg.kind = "ptr_struct"

\* C4: a key present with the empty value is present: the resolver returns
\* the one-element sequence of the empty string under the exploded and under
\* every imploded policy, a slice field bound to the key becomes [""], and a
\* required field bound to it does not fail as missing.
C4_EmptyValueIsPresent ==
    Walked =>
        \A k \in DOMAIN arg.r.query : \A j \in 1..Len(fields) :
            arg.r.query[k] = <<<<>>>> /\ QueryField(j)
            /\ OnlyVariant(k, fields[j].conf.name) =>
                /\ parseQueryValues(FieldConf(j), query) = [vals |-> <<<<>>>>, ok |-> TRUE]
                /\ Failed /\ idx = j => err.kind # "required"
                /\ (j < idx \/ Succeeded) /\ fields[j].sf.type = TSlice(TString) =>
                      FieldVal(j) = StringSlice(<<<<>>>>)
                /\ (j < idx \/ Succeeded) /\ fields[j].sf.type = TString =>
                      FieldVal(j) = [str |-> <<>>]

C4_Witness ==
    /\ Succeeded
    /\ arg.type = TEmpty /\ arg.val0 = Preset(TEmpty)
    /\ dec.exploded
    /\ arg.r.query[<<"fields">>] = <<<<>>>>
    /\ \A j \in 1..4 : FieldConf(j).exploded = (j = 1) /\ FieldVal(j) = StringSlice(<<<<>>>>)
    /\ FieldConf(4).required /\ FieldConf(4).style = QueryStylePipeDelimited

\* the walker's field j is an exploded []string field
ExplodedStrings(j) ==
    QueryField(j) /\ FieldConf(j).exploded /\ fields[j].sf.type = TSlice(TString)

\* C6: a sequence of strings given as N occurrences of one key is what every
\* exploded []string field bound to that key holds after Decode, in the same
\* order and length, several fields sharing the key included; with N = 0
\* the field is left as it was (nil in a zero target).
C6_ExplodedRoundTrip ==
    /\ Returned /\ arg.type = TShared => err = NoErr
    /\ Succeeded =>
          \A j \in 1..Len(fields) : ExplodedStrings(j) =>
              /\ \A k \in DOMAIN arg.r.query : OnlyVariant(k, fields[j].conf.name) =>
                    FieldVal(j) = StringSlice(arg.r.query[k])
              /\ CaseClass(fields[j].conf.name) = {} =>
                    /\ FieldVal(j) = FieldVal0(j)
                    /\ arg.val0 = Zero(arg.type) => FieldVal(j).nil

C6_Witness ==
    /\ Succeeded
    /\ arg.type = TShared /\ dec.exploded
    /\ Len(arg.orig) = MaxVals /\ arg.orig[1] # arg.orig[2]
    /\ arg.r.query[<<"v">>] = arg.orig
    /\ ExplodedStrings(1) /\ ExplodedStrings(2)
    /\ FieldVal(1) = StringSlice(arg.orig) /\ FieldVal(2) = FieldVal(1)

C6_WitnessNone ==
    /\ Succeeded
    /\ arg.type = TShared
    /\ DOMAIN arg.r.query = {<<"x">>}
    /\ FieldVal(1).nil /\ FieldVal(2).nil

\* the imploded setting and delimiter the target of the call was made with
StyleOf(type) == CHOOSE st \in ImplodedStyles : type = TImploded(st[1])

\* C7: under each imploded style with its delimiter d, a non-empty sequence
\* of strings free of d, joined by d into the one value of the key, is decoded
\* into an imploded []string field of that style as exactly the sequence:
\* same elements, same order, empty strings included.
C7_ImplodedRoundTrip ==
    arg.type \in ImplodedTypes =>
        /\ Len(arg.orig) > 0
        /\ \A i \in 1..Len(arg.orig) : ~Contains(arg.orig[i], StyleOf(arg.type)[2])
        /\ arg.r.query = [k \in {<<"v">>} |-> <<Join(arg.orig, StyleOf(arg.type)[2])>>]
        /\ Walked =>
              /\ ~FieldConf(1).exploded
              /\ FieldConf(1).style \in {QueryStyleForm, <<StyleOf(arg.type)[1]>>}
              /\ parseQueryValues(FieldConf(1), query) = [vals |-> arg.orig, ok |-> TRUE]
        /\ Returned => err = NoErr /\ FieldVal(1) = StringSlice(arg.orig)

C7_Witness ==
    /\ Succeeded
    /\ arg.type = TImploded("pipeDelimited")
    /\ arg.orig = <<<<>>, <<",", "a">>>>
    /\ arg.r.query[<<"v">>] = <<<<"|", ",", "a">>>>
    /\ FieldVal(1) = StringSlice(arg.orig)

\* the number of occurrences of x in the sequence
Count(seq, x) == Cardinality({i \in 1..Len(seq) : seq[i] = x})

\* the number of occurrences of the value x under the keys of the request
RECURSIVE CountUnder(_, _)
CountUnder(keys, x) ==
    IF keys = {} THEN 0
    ELSE LET k == CHOOSE k \in keys : TRUE
         IN  Count(arg.r.query[k], x) + CountUnder(keys \ {k}, x)

\* the values of the request
RequestValues == UNION {{arg.r.query[k][i] : i \in 1..Len(arg.r.query[k])} : k \in DOMAIN arg.r.query}

\* the walker's field j has no name of its own in its tag
Unnamed(j) == ~fields[j].sf.hasTag \/ Split(fields[j].sf.tag, ",")[1] = <<>>

\* C8: a query-origin field without a name of its own is bound to its
\* identifier in lower case, whatever the case of the letters of the keys:
\* when the request holds one or more case variants of the key the field is
\* found (no required-missing error) and an exploded []string field holds the
\* values of all the variants, as a multiset.
C8_DefaultNameAnyCase ==
    Walked =>
        \A j \in 1..Len(fields) : Unnamed(j) /\ QueryField(j) =>
            /\ fields[j].conf.name = ToLower(fields[j].sf.name)
            /\ CaseClass(fields[j].conf.name) # {} =>
                  /\ fields[j].conf.name \in DOMAIN query
                  /\ Failed /\ idx = j => err.kind # "required"
                  /\ (j < idx \/ Succeeded) /\ ExplodedStrings(j) =>
                        /\ ~FieldVal(j).nil
                        /\ \A x \in RequestValues :
                              Count(FieldVal(j).slice, [str |-> x])
                                  = CountUnder(CaseClass(fields[j].conf.name), x)
                        /\ \A i \in 1..Len(FieldVal(j).slice) :
                              FieldVal(j).slice[i].str \in RequestValues

C8_Witness ==
    /\ Succeeded
    /\ arg.type = TNames
    /\ DOMAIN arg.r.query = {<<"A", "b">>, <<"a", "B">>, <<"A", "B">>}
    /\ arg.r.query[<<"A", "b">>] = <<<<"2">>, <<"1">>>>
    /\ Len(FieldVal(1).slice) >= 4
    /\ FieldVal(2) = FieldVal(1)

\* the walker's field j is a query-origin deepObject record
DeepField(j) ==
    /\ fields[j].origin = originQuery
    /\ fields[j].conf.name # <<"-">>
    /\ ~FieldConf(j).err
    /\ FieldConf(j).style = QueryStyleDeepObject
    /\ fields[j].sf.type.kind = "struct"

\* the sub-fields of the record the walker's field j is
SubFields(j) == 1..Len(fields[j].sf.type.fields)

\* the tag of sub-field i of the walker's field j, parsed
SubConf(j, i) == parseFieldConf(fields[j].sf.type.fields[i])

\* the value sub-field i of the walker's field j holds now, and held before
SubVal(j, i) == GetAt(val, Append(fields[j].path, i))
SubVal0(j, i) == GetAt(arg.val0, Append(fields[j].path, i))

\* the index key k is name[sub] for some sub
OfDeepForm(k, name) ==
    /\ Len(k) >= Len(name) + 2
    /\ SubSeq(k, 1, Len(name) + 1) = name \o <<"[">>
    /\ k[Len(k)] = "]"

\* the request's keys that are name[sub] up to the case of the letters
DeepVariants(name, sub) ==
    {k \in DOMAIN arg.r.query :
        k = DeepKey(name, sub) \/ ToLower(k) = DeepKey(name, sub)}

\* the walker's field j is required and the request has no key for it
RequiredMissing(j) ==
    /\ fields[j].origin = originQuery
    /\ fields[j].conf.name # <<"-">>
    /\ ~FieldConf(j).err
    /\ FieldConf(j).required
    /\ IF FieldConf(j).style = QueryStyleDeepObject
       THEN \A k \in DOMAIN query : ~OfDeepForm(k, FieldConf(j).name)
       ELSE FieldConf(j).name \notin DOMAIN query

\* sub-field i of the deepObject record j is required and has no key
SubRequiredMissing(j, i) ==
    /\ SubConf(j, i).origin = originQuery
    /\ SubConf(j, i).name # <<"-">>
    /\ Contains(SubConf(j, i).conf, <<"required">>)
    /\ DeepKey(FieldConf(j).name, SubConf(j, i).name) \notin DOMAIN query

\* C3 as claimed: Decode never returns success while the key of a required
\* query field is absent, whatever the field's shape: scalar, pointer,
\* slice, deepObject record, or sub-field of a deepObject record.
C3_RequiredNeverMissing ==
    Succeeded =>
        \A j \in 1..Len(fields) :
            /\ ~RequiredMissing(j)
            /\ DeepField(j) => \A i \in SubFields(j) : ~SubRequiredMissing(j, i)

\* the part of C3 the walker's own fields satisfy: a required scalar,
\* pointer, slice or deepObject record without a key fails as missing
C3_RequiredFieldOfWalker ==
    /\ Succeeded => \A j \in 1..Len(fields) : ~RequiredMissing(j)
    /\ Walked => \A j \in 1..(idx - 1) : ~RequiredMissing(j)
    /\ Failed /\ idx \in 1..Len(fields) /\ RequiredMissing(idx) =>
          err = Err("required", FieldConf(idx).name, "")

\* the paths of the fields named "-" of the struct type, at any depth
RECURSIVE DashPaths(_, _)
DashPaths(t, path) ==
    UNION {IF parseFieldConf(t.fields[i]).name = <<"-">> THEN {Append(path, i)}
           ELSE IF t.fields[i].type.kind = "struct"
           THEN DashPaths(t.fields[i].type, Append(path, i))
           ELSE {} : i \in 1..Len(t.fields)}

\* C5 as claimed: a field named "-" is excluded from all binding: Decode
\* leaves it, and all its children when it is a record, as it was, be it a
\* field of the target, of a flattened record or of a deepObject record,
\* whatever keys the request holds.
C5_DashNeverBound ==
    arg.kind = "ptr_struct" /\ arg.type.kind = "struct" =>
        \A path \in DashPaths(arg.type, <<>>) :
            GetAt(val, path) = GetAt(arg.val0, path)

\* the part of C5 the field loop of Decode satisfies: a field of the walker
\* named "-" is left as it was
C5_DashFieldOfWalker ==
    Walked => \A j \in 1..Len(fields) :
        fields[j].conf.name = <<"-">> => FieldVal(j) = FieldVal0(j)

\* C9: the sub-mapping of a deepObject record named p holds the sub-keys of
\* the index keys p[sub] and no other, each with that key's values; a string
\* sub-field named a holds X after a request with p[a]=X, and a sub-field
\* whose sub-key is absent is left as it was.
C9_DeepObject ==
    Walked => \A j \in 1..Len(fields) : DeepField(j) =>
        /\ DOMAIN parseQueryValuesDeep(FieldConf(j).name, query)
              = {SubSeq(k, Len(FieldConf(j).name) + 2, Len(k) - 1) :
                    k \in {k \in DOMAIN query : OfDeepForm(k, FieldConf(j).name)}}
        /\ \A k \in DOMAIN query : OfDeepForm(k, FieldConf(j).name) =>
              parseQueryValuesDeep(FieldConf(j).name, query)
                  [SubSeq(k, Len(FieldConf(j).name) + 2, Len(k) - 1)] = query[k]
        /\ (j < idx \/ Succeeded) => \A i \in SubFields(j) :
              SubConf(j, i).name # <<"-">> /\ fields[j].sf.type.fields[i].type = TString =>
                /\ DeepVariants(FieldConf(j).name, SubConf(j, i).name) = {} =>
                      SubVal(j, i) = SubVal0(j, i)
                /\ \A k \in DOMAIN arg.r.query :
                      DeepVariants(FieldConf(j).name, SubConf(j, i).name) = {k} =>
                          SubVal(j, i) = [str |-> arg.r.query[k][1]]
        /\ Returned /\ arg.type = TDeep => err = NoErr

C9_Witness ==
    /\ Succeeded
    /\ arg.type = TDeep /\ arg.val0 = Preset(TDeep)
    /\ DOMAIN arg.r.query = {DeepKey(<<"p">>, <<"a">>), DeepKey(<<"q">>, <<"a">>),
                              <<"p", "[", "a">>}
    /\ arg.r.query[DeepKey(<<"p">>, <<"a">>)] = <<<<"X">>>>
    /\ arg.r.query[DeepKey(<<"q">>, <<"a">>)] = <<<<"Y">>>>
    /\ SubVal(1, 1) = [str |-> <<"X">>]
    /\ SubVal(1, 2) = [str |-> <<"o">>]

\* the walker's field j is a header-origin field that is not named "-"
HeaderField(j) == fields[j].origin = originHeader /\ fields[j].conf.name # <<"-">>

\* C10 as claimed: a record with a header-origin field is never decoded
\* successfully, whatever the field's name.
C10_HeaderFieldNeverSucceeds ==
    Succeeded => \A j \in 1..Len(fields) : fields[j].origin # originHeader

\* C10 as amended: when the field loop arrives at a header-origin field whose
\* name is not "-", Decode returns the not-implemented error, so a record
\* whose walker sequence holds such a field is never decoded successfully; a
\* header-origin field named "-" is passed by like every excluded field.
C10_HeaderFieldFails ==
    /\ Succeeded => \A j \in 1..Len(fields) : ~HeaderField(j)
    /\ pc \in {"fields", "done"} => \A j \in 1..(idx - 1) : ~HeaderField(j)
    /\ Returned /\ idx \in 1..Len(fields) /\ HeaderField(idx) =>
          err = Err("header not implemented", <<>>, "")

C10_Witness ==
    /\ Failed
    /\ idx = 2 /\ HeaderField(2)
    /\ err.kind = "header not implemented"
    /\ fields[2].sf.type = TString

\* the walker's field j is a body-origin field that is not named "-"
BodyField(j) == fields[j].origin = originBody /\ fields[j].conf.name # <<"-">>

\* the walker's field j is the first body-origin field Decode arrives at
FirstBodyField(j) == BodyField(j) /\ \A i \in 1..(j - 1) : ~BodyField(i)

\* the format the tag of field j declares, "" when it declares none
DeclaredFormat(j) ==
    IF Contains(fields[j].conf.conf, <<"json">>) THEN "json"
    ELSE IF Contains(fields[j].conf.conf, <<"xml">>) THEN "xml"
    ELSE ""

\* the format the media type names, JSON when it names neither
FormatOf(mediaType) ==
    IF HasPrefix(ToLower(mediaType), <<"application/xml">>) THEN "xml" ELSE "json"

\* the format of the body as C11 states it
ClaimedFormat(j) ==
    IF DeclaredFormat(j) # "" THEN DeclaredFormat(j) ELSE FormatOf(arg.r.contentType)

\* Decode has read the body for field j as a document of the format
ReadAs(j, format) ==
    /\ j < idx \/ Succeeded => arg.r.body = format /\ FieldVal(j) = BodyValue(fields[j].sf.type)
    /\ Failed /\ idx = j => err = Err("decode body", <<>>, format)

\* C11 as claimed: a body field with a json or xml token is decoded in that
\* format whatever the headers; without a token the format is the one the
\* Content-Type header names, JSON when the header is absent or names neither
\* JSON nor XML.
C11_BodyFormatSelection ==
    Walked => \A j \in 1..Len(fields) :
        FirstBodyField(j) /\ (j <= idx \/ Succeeded) => ReadAs(j, ClaimedFormat(j))

\* the part of C11 decodeBody satisfies: a declared format is the one used;
\* without one the Accept header decides, and a header that names neither
\* JSON nor XML, or none, makes Decode fail before the body is read
C11_DeclaredOrAccept ==
    Walked => \A j \in 1..Len(fields) :
        FirstBodyField(j) /\ (j <= idx \/ Succeeded) =>
            IF DeclaredFormat(j) # "" THEN ReadAs(j, DeclaredFormat(j))
            ELSE IF HasPrefix(ToLower(arg.r.accept), <<"application/json">>)
            THEN ReadAs(j, "json")
            ELSE IF HasPrefix(ToLower(arg.r.accept), <<"application/xml">>)
            THEN ReadAs(j, "xml")
            ELSE /\ idx = j /\ ~Succeeded
                 /\ Returned => err = Err("unsupported body", <<>>, "")
                 /\ bodyReads = 0 /\ bodyLeft

\* the body-origin fields Decode has decoded
BodiesDecoded == {j \in 1..Len(fields) : BodyField(j) /\ (j < idx \/ Succeeded)}

PathField(j) == fields[j].origin = originPath /\ fields[j].conf.name # <<"-">>

\* the fields Decode has arrived at
Reached == {j \in 1..Len(fields) : j < idx \/ (Returned /\ j = idx)}

\* C13: the path-value provider is called once for each path-origin field
\* Decode arrives at, with the field's name, and for no other field; on
\* success the field holds the coercion of the string the provider returned,
\* whatever the query holds under the same name.
C13_PathProviderOncePerField ==
    Walked =>
        /\ Len(pathCalls) = Cardinality({j \in Reached : PathField(j)})
        /\ \A j \in Reached : PathField(j) =>
              pathCalls[Cardinality({i \in 1..j : PathField(i)})] = fields[j].conf.name
        /\ \A j \in 1..Len(fields) : PathField(j) /\ (j < idx \/ Succeeded) =>
              /\ fields[j].sf.type = TString =>
                    FieldVal(j) = [str |-> pathValue(arg.r, fields[j].conf.name)]
              /\ fields[j].sf.type = TInt(8) =>
                    /\ pathValue(arg.r, fields[j].conf.name) = <<"1">>
                    /\ FieldVal(j) = [int |-> 1]
        /\ Failed /\ idx \in 1..Len(fields) /\ PathField(idx) =>
              /\ err.kind = "path" /\ err.name = fields[idx].conf.name
              /\ pathValue(arg.r, fields[idx].conf.name) # <<"1">>
              /\ FieldVal(idx) = FieldVal0(idx)

C13_Witness ==
    /\ Succeeded
    /\ arg.type = TPath
    /\ DOMAIN arg.r.query = {<<"id">>, <<"name">>}
    /\ DOMAIN arg.r.path = {<<"id">>, <<"name">>}
    /\ arg.r.path[<<"id">>] = <<"1">> /\ arg.r.path[<<"name">>] = <<"x">>
    /\ pathCalls = <<<<"id">>, <<"name">>>>
    /\ FieldVal(1) = [int |-> 1] /\ FieldVal(2) = [str |-> <<"5">>]
    /\ FieldVal(3) = [str |-> <<"x">>]

\* the type behind the pointers of the type
RECURSIVE Pointee(_)
Pointee(t) == IF t.kind = "ptr" THEN Pointee(t.elem) ELSE t

\* the walker's field j is a query-origin field of a type with UnmarshalText
CustomField(j) ==
    /\ fields[j].origin = originQuery
    /\ fields[j].conf.name # <<"-">>
    /\ ~FieldConf(j).err
    /\ ImplementsTextUnmarshaler(Pointee(fields[j].sf.type))

\* the first of the raw values the resolver has for the walker's field j
FirstRaw(j) == parseQueryValues(FieldConf(j), query).vals[1]

\* the value of the type of field j that holds value v behind its pointers
RECURSIVE Pointing(_, _)
Pointing(t, v) == IF t.kind = "ptr" THEN [ptr |-> <<Pointing(t.elem, v)>>] ELSE v

\* the key of field j is present and its turn called UnmarshalText once, with
\* the first raw value, to the effect of that call alone
CustomDecoded(j) ==
    fields[j].conf.name \in DOMAIN query /\ j <= Len(decoded) =>
        /\ decoded[j].texts = <<FirstRaw(j)>>
        /\ IF Len(Split(FirstRaw(j), ",")) > 2
           THEN /\ Failed /\ idx = j
                /\ err = Err("query param", fields[j].conf.name, "unmarshal")
           ELSE /\ j < idx \/ Succeeded
                /\ FieldVal(j) = Pointing(fields[j].sf.type,
                                           sortOf(Zero(TSort), Split(FirstRaw(j), ",")).val)

\* the struct fields of the target with UnmarshalText are entries of the walker
CustomTerminal ==
    \A i \in 1..Len(arg.type.fields) :
        arg.type.fields[i].exported /\ ImplementsTextUnmarshaler(arg.type.fields[i].type) =>
            /\ \E j \in 1..Len(fields) : fields[j].path = <<i>>
            /\ \A j \in 1..Len(fields) : fields[j].path[1] = i => fields[j].path = <<i>>

\* C14 as claimed: a field of a type with UnmarshalText is one entry of the
\* walker, never flattened, and when its key is present the coercer calls
\* UnmarshalText once with the first raw value and does nothing else to the
\* field; an error of UnmarshalText makes Decode fail.
C14_CustomDecoderFirst ==
    Walked => CustomTerminal /\ \A j \in 1..Len(fields) : CustomField(j) => CustomDecoded(j)

\* the part of C14 the code satisfies: the same of the fields that are not
\* of style deepObject
C14_CustomDecoderUnlessDeep ==
    Walked =>
        /\ CustomTerminal
        /\ \A j \in 1..Len(fields) :
              CustomField(j) /\ FieldConf(j).style # QueryStyleDeepObject => CustomDecoded(j)

\* the text is a decimal numeral with an optional sign
IsDecimal(x) ==
    Len(x) > 0 /\ AllDigits(IF x[1] \in {"-", "+"} THEN Tail(x) ELSE x)

\* the number the decimal numeral denotes
NumberOf(x) ==
    IF x[1] = "-" THEN 0 - DecimalVal(Tail(x))
    ELSE IF x[1] = "+" THEN DecimalVal(Tail(x))
    ELSE DecimalVal(x)

\* the walker's field j is an integer field bound by name to a present key
IntField(j) ==
    /\ QueryField(j)
    /\ fields[j].sf.type.kind \in {"int", "uint"}
    /\ fields[j].conf.name \in DOMAIN query

\* the numeral is out of the range of the integer type
OutOfRange(t, x) == NumberOf(x) < MinInt(t) \/ NumberOf(x) > MaxInt(t)

\* C15: a decimal raw value out of the range of the width of a signed or
\* unsigned integer field (a negative one for an unsigned field included)
\* makes Decode fail with a coercion error naming the parameter, and the field
\* never holds a truncated or wrapped value.
C15_IntegerWidth ==
    Walked => \A j \in 1..Len(fields) : IntField(j) /\ IsDecimal(FirstRaw(j)) =>
        /\ OutOfRange(fields[j].sf.type, FirstRaw(j)) =>
              /\ j >= idx /\ ~Succeeded
              /\ FieldVal(j) = FieldVal0(j)
              /\ Returned /\ idx = j =>
                    err = Err("query param", fields[j].conf.name, "parse")
        /\ j < idx \/ Succeeded =>
              /\ FieldVal(j) = [int |-> NumberOf(FirstRaw(j))]
              /\ FieldVal(j).int \in MinInt(fields[j].sf.type)..MaxInt(fields[j].sf.type)

C15_Witness ==
    /\ Failed
    /\ arg.type = TScalar(TInt(8))
    /\ arg.r.query = [k \in {<<"v">>} |-> <<<<"1", "2", "8">>>>]
    /\ err = Err("query param", <<"v">>, "parse")
    /\ FieldVal(1) = [int |-> 7]

C15_WitnessUnsigned ==
    /\ Failed
    /\ arg.type = TScalar(TUint(16))
    /\ arg.r.query = [k \in {<<"v">>} |-> <<<<"-", "1">>>>]
    /\ err = Err("query param", <<"v">>, "parse")

\* the targets of the scalar round trips
ScalarTargets == {TScalar(t) : t \in ScalarTypes}

\* the call is a round trip of a scalar value
ScalarRoundTrip ==
    /\ arg.type \in ScalarTargets
    /\ arg.orig # <<>>
    /\ arg.r.query = [k \in {<<"v">>} |-> <<Sprint(arg.orig[1])>>]

\* C16 as claimed: for every scalar kind (bool, string, the signed and the
\* unsigned integers) and every value v of it, the ends of the integer ranges
\* and the empty string included, the text of v as the one value of a key is
\* decoded into a field of the kind with success, and the field holds v.
C16_ScalarRoundTrip ==
    ScalarRoundTrip /\ Returned => err = NoErr /\ FieldVal(1) = arg.orig[1]

\* the part of C16 the code satisfies: the round trip under an exploded
\* policy, and under an imploded one when the text holds no delimiter
C16_ScalarRoundTripUnsplit ==
    ScalarRoundTrip /\ Returned
    /\ (dec.exploded \/ ~Contains(Sprint(arg.orig[1]), styleDelimiter(dec.style))) =>
        err = NoErr /\ FieldVal(1) = arg.orig[1]

\* the parts the switch of parseQueryFieldConf knows
KnownSettings ==
    {<<"required">>, <<"explode">>, <<"implode">>, QueryStyleForm,
     QueryStylePipeDelimited, QueryStyleSpaceDelimited, QueryStyleDeepObject}

\* the field's tag gives it the query origin, a name other than "-" and a
\* setting that is not a known part
InvalidTag(c) ==
    /\ c.origin = originQuery
    /\ c.name # <<"-">>
    /\ \E i \in 1..Len(c.conf) : c.conf[i] \notin KnownSettings

\* some exported field of the struct type, or of a struct type nested in it,
\* has such a tag
RECURSIVE HasInvalidTag(_)
HasInvalidTag(t) ==
    \E i \in 1..Len(t.fields) :
        /\ t.fields[i].exported
        /\ \/ InvalidTag(parseFieldConf(t.fields[i]))
           \/ /\ t.fields[i].type.kind = "struct"
              /\ HasInvalidTag(t.fields[i].type)

\* the walker's field j is decoded from the query and has such a tag
InvalidField(j) ==
    /\ fields[j].origin = originQuery
    /\ fields[j].conf.name # <<"-">>
    /\ \E i \in 1..Len(fields[j].conf.conf) : fields[j].conf.conf[i] \notin KnownSettings

\* C17 as claimed: an unrecognized setting in the tag of a query-origin field
\* makes Decode fail for every request, so no call succeeds on a target one
\* of whose query-origin fields has such a tag.
C17_InvalidTokenFails ==
    Succeeded /\ arg.kind = "ptr_struct" => ~HasInvalidTag(arg.type)

\* What holds: the fields decodeQuery is called for.  When the field loop
\* arrives at a query-origin field of the walker whose settings hold an
\* unknown part, Decode returns the invalid-part error naming the first such
\* part, whatever the request and the Decoder, and neither that field nor a
\* later one is written.
C17_InvalidTokenOfWalker ==
    /\ pc \in {"fields", "done"} => \A j \in 1..(idx - 1) : j <= Len(fields) => ~InvalidField(j)
    /\ Returned /\ idx \in 1..Len(fields) /\ InvalidField(idx) =>
          /\ err = Err("invalid part", FieldConf(idx).part, "")
          /\ FieldConf(idx).part \notin KnownSettings
          /\ \A j \in idx..Len(fields) : FieldVal(j) = FieldVal0(j)

\* the key of the field with the unknown part is absent and Decode has failed
C17_WalkerReached ==
    /\ Failed
    /\ idx = 2 /\ InvalidField(2)
    /\ <<"v">> \notin DOMAIN arg.r.query
    /\ err = Err("invalid part", <<"expanded">>, "")

\* the walker's field j is decoded from the query, is not required and the
\* request has no key for it
OptionalAbsent(j) ==
    /\ fields[j].origin = originQuery
    /\ fields[j].conf.name # <<"-">>
    /\ ~FieldConf(j).err
    /\ ~FieldConf(j).required
    /\ IF FieldConf(j).style = QueryStyleDeepObject
       THEN \A k \in DOMAIN query : ~OfDeepForm(k, FieldConf(j).name)
       ELSE FieldConf(j).name \notin DOMAIN query

\* the fields the loop has decoded without an error
Passed == {j \in 1..Len(fields) : j < idx}

\* C18 as claimed: an absent optional query field does not make Decode fail
\* and keeps the value it had before the call, a nil pointer included.
C18_AbsentOptionalUntouched ==
    Walked =>
        /\ \A j \in Passed : OptionalAbsent(j) => FieldVal(j) = FieldVal0(j)
        /\ Returned /\ idx \in 1..Len(fields) => ~OptionalAbsent(idx)

\* the walker's field j is a deepObject field whose type is a pointer
DeepPointer(j) ==
    FieldConf(j).style = QueryStyleDeepObject /\ fields[j].sf.type.kind = "ptr"

\* What holds: an absent optional field keeps its value and does not fail,
\* unless it is a deepObject field of pointer type: a nil pointer to a
\* struct is then replaced by a pointer to a zero struct.
C18_AbsentUntouchedUnlessDeepPointer ==
    Walked =>
        /\ \A j \in Passed : OptionalAbsent(j) =>
              IF DeepPointer(j) /\ FieldVal0(j).ptr = <<>>
              THEN FieldVal(j) = [ptr |-> <<Zero(fields[j].sf.type.elem)>>]
              ELSE FieldVal(j) = FieldVal0(j)
        /\ Returned /\ idx \in 1..Len(fields) => ~OptionalAbsent(idx)

\* absent optional fields of every shape have been passed with their values kept
C18_UntouchedReached ==
    /\ Succeeded
    /\ arg.type = TOptional
    /\ arg.val0 = Preset(TOptional)
    /\ DOMAIN arg.r.query = {<<"x">>}
    /\ val = arg.val0

\* the greatest element of a non-empty set of numbers
Greatest(S) == CHOOSE x \in S : \A y \in S : y <= x

\* the positions of the options of each axis
ExplodeAxis(o) == {i \in 1..Len(o) : o[i].opt \in {"QueryExplode", "QueryImplode"}}
StyleAxis(o) == {i \in 1..Len(o) : o[i].opt = "QueryStyle"}

\* the policy the options ask for: on each axis the last option, or the default
PolicyOf(o) ==
    [exploded |-> IF ExplodeAxis(o) = {} THEN TRUE
                  ELSE o[Greatest(ExplodeAxis(o))].opt = "QueryExplode",
     style    |-> IF StyleAxis(o) = {} THEN QueryStyleForm
                  ELSE o[Greatest(StyleAxis(o))].style]

\* the positions of the settings of the walker's field j that bear on each axis
DelimitedStyles == {QueryStyleForm, QueryStylePipeDelimited, QueryStyleSpaceDelimited}

ExplodeSettings(j) ==
    {i \in 1..Len(fields[j].conf.conf) :
        fields[j].conf.conf[i] \in DelimitedStyles \cup {<<"explode">>, <<"implode">>}}

StyleSettings(j) ==
    {i \in 1..Len(fields[j].conf.conf) : fields[j].conf.conf[i] \in DelimitedStyles}

\* the policy of the walker's field j: on each axis the tag's last setting,
\* or the Decoder's policy when the tag has none
FieldExploded(j) ==
    IF ExplodeSettings(j) = {} THEN dec.exploded
    ELSE fields[j].conf.conf[Greatest(ExplodeSettings(j))] = <<"explode">>

FieldStyle(j) ==
    IF StyleSettings(j) = {} THEN dec.style
    ELSE fields[j].conf.conf[Greatest(StyleSettings(j))]

DelimiterOf(style) ==
    IF style = QueryStylePipeDelimited THEN "|"
    ELSE IF style = QueryStyleSpaceDelimited THEN " "
    ELSE ","

\* the raw values that policy gives the field from the occurrences of its key
Pieces(j) ==
    IF FieldExploded(j) THEN query[fields[j].conf.name]
    ELSE Split(query[fields[j].conf.name][Len(query[fields[j].conf.name])],
               DelimiterOf(FieldStyle(j)))

IntSlice(seq) == [slice |-> [i \in 1..Len(seq) |-> [int |-> NumberOf(seq[i])]], nil |-> FALSE]

\* the walker's field j is a []int8 field of a policy target whose key is present
PolicyField(j) ==
    /\ \E st \in PolicySettings \cup OriginSettings : arg.type = TPolicy(st)
    /\ fields[j].conf.name \in DOMAIN query

\* C20: NewDecoder without options has style form and exploded values; among
\* several options the last one of an axis decides; a field whose tag has no
\* style or explode setting is decoded under the Decoder's policy, and a
\* setting of the tag decides for its field whatever the Decoder's policy is.
\* Decoding under a policy means: exploded, one element per occurrence of the
\* key; imploded, the last occurrence split by the style's delimiter.
C20_PolicyPrecedence ==
    /\ NewDecoder(<<>>) = [exploded |-> TRUE, style |-> QueryStyleForm]
    /\ \A o \in PolicyOpts : NewDecoder(o) = PolicyOf(o)
    /\ Walked =>
          /\ \A j \in Passed : PolicyField(j) =>
                /\ \A i \in 1..Len(Pieces(j)) : IsDecimal(Pieces(j)[i])
                /\ FieldVal(j) = IntSlice(Pieces(j))
          /\ Returned /\ idx \in 1..Len(fields) /\ PolicyField(idx) =>
                /\ \E i \in 1..Len(Pieces(idx)) : ~IsDecimal(Pieces(idx)[i])
                /\ err.kind = "query param"

\* the example: a Decoder made with the implode option decodes ?ids=1,2,3
\* into [1, 2, 3] for the untagged field, and the tag of the field beside it
\* decides against the Decoder
C20_Witness ==
    /\ Succeeded
    /\ dec = [exploded |-> FALSE, style |-> QueryStyleForm]
    /\ arg.type = TPolicy(<<"explode">>)
    /\ DOMAIN arg.r.query = {<<"i", "d", "s">>, <<"t">>}
    /\ arg.r.query[<<"i", "d", "s">>] = <<<<"1", ",", "2", ",", "3">>>>
    /\ FieldVal(1) = IntSlice(<<<<"1">>, <<"2">>, <<"3">>>>)
    /\ arg.r.query[<<"t">>] = <<<<"1">>, <<"2">>>>
    /\ FieldVal(2) = IntSlice(<<<<"1">>, <<"2">>>>)

\* the index Decode makes of a request, all keys put
RECURSIVE indexAll(_, _, _)
indexRest(q, urlQuery, keys, k) == indexAll(indexPut(q, urlQuery, k), urlQuery, keys \ {k})

indexAll(q, urlQuery, keys) ==
    IF keys = {} THEN q ELSE indexRest(q, urlQuery, keys, CHOOSE k \in keys : TRUE)

\* the field loop of Decode from field i on, run without interruption
RECURSIVE runFields(_, _, _, _, _, _, _)
runNext(d, r, fs, v, q, i, x) ==
    IF x.err # NoErr THEN [err |-> x.err, val |-> SetAt(v, fs[i].path, x.val)]
    ELSE runFields(d, r, fs, SetAt(v, fs[i].path, x.val), q, x.left, i + 1)

runFields(d, r, fs, v, q, left, i) ==
    IF i > Len(fs) THEN [err |-> NoErr, val |-> v]
    ELSE runNext(d, r, fs, v, q, i, decodeField(d, r, fs[i], GetAt(v, fs[i].path), q, left))

\* what a call of Decode with arguments a on Decoder d gives when run alone:
\* the error returned and the target
Alone(d, a) ==
    IF usageError(a.kind) # NoErr THEN [err |-> usageError(a.kind), val |-> a.val0]
    ELSE runFields(d, a.r, flattenFields(a.type), a.val0,
                   indexAll(<<>>, a.r.query, DOMAIN a.r.query), TRUE, 1)

\* no key of the request differs from another only by the case of its letters
\* or is the upper-case spelling of a name, so the index has one value
OneIndex(a) == \A k \in DOMAIN a.r.query : ToLower(k) = k

\* C19: whatever the interleaving of the steps of two calls on one Decoder,
\* each with a request and a target of its own, the Decoder keeps the
\* configuration NewDecoder gave it, a call that has not begun has left its
\* target alone, and a call that has returned has the error and the target
\* it has when it runs alone.
C19_CallsIndependent ==
    \A c \in Calls :
        /\ dec = arg[c].d
        /\ dec \in {NewDecoder(o) : o \in ShareOpts}
        /\ pc[c] = "start" => val[c] = arg[c].val0 /\ err[c] = NoErr
        /\ pc[c] = "done" =>
              [err |-> err[c], val |-> val[c]] = Alone(arg[c].d, arg[c])

\* call "a" is in its field loop with its first field stored, call "b" has
\* returned an error for another request, and each target holds its own values
C19_Witness ==
    /\ pc["a"] = "fields" /\ idx["a"] = 2
    /\ pc["b"] = "done" /\ err["b"] = Err("required", <<"v">>, "")
    /\ ~dec.exploded
    /\ arg["a"].r.query # arg["b"].r.query
    /\ GetAt(val["a"], <<1>>) = IntSlice(<<<<"1">>, <<"2">>>>)
    /\ GetAt(val["b"], <<1>>) = IntSlice(<<<<"2">>>>)

\* the settings of the tag of the walker's field j in the order written,
\* the origin left out
NotOrigin(s) == s \notin Origins

WrittenSettings(j) ==
    SelectSeq(trimAll(Tail(Split(fields[j].sf.tag, ","))), NotOrigin)

WrittenExplodeAxis(j) ==
    {i \in 1..Len(WrittenSettings(j)) :
        WrittenSettings(j)[i] \in DelimitedStyles \cup {<<"explode">>, <<"implode">>}}

\* exploded as the settings give it when applied in the order written
WrittenExploded(j) ==
    IF WrittenExplodeAxis(j) = {} THEN dec.exploded
    ELSE WrittenSettings(j)[Greatest(WrittenExplodeAxis(j))] = <<"explode">>

\* the walker's field j is the tagged field of a policy target
WrittenField(j) ==
    /\ \E st \in PolicySettings \cup OriginSettings : arg.type = TPolicy(st)
    /\ fields[j].sf.hasTag

\* C21 as claimed: the settings of a tag take effect in the order written,
\* wherever the origin stands among them: exploded is what the last setting
\* of the explode axis (explode, implode or a delimited style) says.
C21_SettingsLeftToRight ==
    Walked => \A j \in 1..Len(fields) :
        WrittenField(j) => FieldConf(j).exploded = WrittenExploded(j)

\* the position of the origin among the settings as written, or 0
WrittenOrigin(j) == lastOrigin(Tail(Split(fields[j].sf.tag, ",")))

\* What holds: the order written decides unless the origin stands before the
\* next-to-last setting; the last setting is then moved into the origin's
\* place and is applied before the ones that were written before it.
C21_LeftToRightUnlessMoved ==
    Walked => \A j \in 1..Len(fields) :
        WrittenField(j) =>
            IF WrittenOrigin(j) = 0
               \/ WrittenOrigin(j) >= Len(Split(fields[j].sf.tag, ",")) - 2
            THEN FieldConf(j).exploded = WrittenExploded(j)
            ELSE fields[j].conf.conf =
                    <<WrittenSettings(j)[Len(WrittenSettings(j))]>>
                    \o SubSeq(WrittenSettings(j), 1, Len(WrittenSettings(j)) - 1)

\* `t,query,form,explode` with two occurrences of t: the field is decoded
\* imploded and gets the last occurrence only
C21_MovedReached ==
    /\ Succeeded
    /\ arg.type = TPolicy(<<"query", ",", "form", ",", "explode">>)
    /\ DOMAIN arg.r.query = {<<"t">>}
    /\ arg.r.query[<<"t">>] = <<<<"1">>, <<"2">>>>
    /\ FieldVal(2) = IntSlice(<<<<"2">>>>)

\* C22: an imploded []string field whose key occurs several times gets the
\* last occurrence split by the style's delimiter and nothing else: with the
\* last occurrence the join of a sequence of delimiter-free strings, the field
\* is exactly that sequence whatever the earlier occurrences hold.
C22_ImplodedTakesLast ==
    arg.type \in ImplodedTypes =>
        /\ Len(arg.r.query[<<"v">>]) >= 2
        /\ arg.r.query[<<"v">>][Len(arg.r.query[<<"v">>])]
              = Join(arg.orig, StyleOf(arg.type)[2])
        /\ Walked => ~FieldConf(1).exploded
        /\ Returned => err = NoErr /\ FieldVal(1) = StringSlice(arg.orig)

\* three occurrences, the earlier ones holding the delimiter themselves
C22_Witness ==
    /\ Succeeded
    /\ arg.type = TImploded("pipeDelimited")
    /\ arg.r.query[<<"v">>] = <<<<"y", "|", "z">>, <<"z">>, <<"a", "|", "b">>>>
    /\ arg.val0 = Preset(arg.type)
    /\ FieldVal(1) = StringSlice(<<<<"a">>, <<"b">>>>)

\* s is t with some elements left out
RECURSIVE IsSubseq(_, _)
IsSubseq(s, t) ==
    IF Len(s) = 0 THEN TRUE
    ELSE IF Len(t) = 0 THEN FALSE
    ELSE IF s[1] = t[1] THEN IsSubseq(Tail(s), Tail(t))
    ELSE IsSubseq(s, Tail(t))

\* the number of values under the keys of the request
RECURSIVE LenUnder(_)
LenUnder(keys) ==
    IF keys = {} THEN 0
    ELSE Len(arg.r.query[CHOOSE k \in keys : TRUE])
            + LenUnder(keys \ {CHOOSE k \in keys : TRUE})

\* C23: once the index is made, for every key k of the request the entry
\* under k in lower case holds the values of all the spellings of k, each
\* value as often as the request has it, the values of each spelling in
\* their order; the entry under k itself holds k's values in their order.
C23_IndexInvariant ==
    Walked => \A k \in DOMAIN arg.r.query :
        /\ ToLower(k) \in DOMAIN query
        /\ k \in DOMAIN query
        /\ Len(query[ToLower(k)]) = LenUnder(CaseClass(k))
        /\ \A x \in RequestValues :
              Count(query[ToLower(k)], x) = CountUnder(CaseClass(k), x)
        /\ \A v \in CaseClass(k) : IsSubseq(arg.r.query[v], query[ToLower(k)])
        /\ IsSubseq(arg.r.query[k], query[k])

\* three spellings of the key, merged under the lower-case one
C23_Witness ==
    /\ Walked
    /\ DOMAIN arg.r.query = {<<"a", "b">>, <<"a", "B">>, <<"A", "B">>}
    /\ arg.r.query = [k \in DOMAIN arg.r.query |-> VariantValues[k]]
    /\ Len(query[<<"a", "b">>]) = 6
    /\ query[<<"a", "b">>][1] = <<"1">>
    /\ query[<<"A", "B">>] # query[<<"a", "b">>]

\* the tag of the walker's field j has a setting that is not a format
OtherFormat(j) ==
    \E i \in 1..Len(fields[j].conf.conf) : fields[j].conf.conf[i] \notin {<<"json">>, <<"xml">>}

\* C24 as claimed: a body field whose tag has a format other than json and
\* xml makes Decode fail with the unsupported-format error whatever the
\* headers of the request; the body is not read.
C24_OtherFormatFails ==
    Walked => \A j \in 1..Len(fields) :
        FirstBodyField(j) /\ OtherFormat(j) =>
            /\ ~Succeeded /\ idx <= j
            /\ Returned /\ idx = j =>
                  err = Err("unsupported body", <<>>, "") /\ bodyReads = 0

\* What holds: decodeBody looks for json and xml among the settings and
\* passes every other setting by, so the Accept header decides as it does for
\* a tag without a format, and Decode fails only when the header names none.
C24_OtherFormatPassedBy ==
    Walked => \A j \in 1..Len(fields) :
        FirstBodyField(j) /\ OtherFormat(j) /\ DeclaredFormat(j) = "" /\ Returned =>
            IF HasPrefix(ToLower(arg.r.accept), <<"application/json">>)
            THEN ReadAs(j, "json")
            ELSE IF HasPrefix(ToLower(arg.r.accept), <<"application/xml">>)
            THEN ReadAs(j, "xml")
            ELSE idx = j /\ err = Err("unsupported body", <<>>, "") /\ bodyReads = 0

\* `oas:",body,yaml"` with a JSON body and Accept: application/json is decoded
C24_PassedByReached ==
    /\ Succeeded
    /\ arg.type = TBody(<<",", "body", ",", "yaml">>)
    /\ arg.r.accept = <<"application/json">>
    /\ FieldVal(1) = BodyValue(TEntity)

\* the paths to the fields of the struct type and of every struct nested in it
RECURSIVE AllPaths(_)
AllPaths(t) ==
    UNION {{<<i>>} \cup
           (IF t.fields[i].type.kind = "struct"
            THEN {<<i>> \o q : q \in AllPaths(t.fields[i].type)}
            ELSE {})
              : i \in 1..Len(t.fields)}

\* the field of the struct type at the path
RECURSIVE FieldAt(_, _)
FieldAt(t, path) ==
    IF Len(path) = 1 THEN t.fields[path[1]]
    ELSE FieldAt(t.fields[path[1]].type, Tail(path))

\* path p comes before path q in declaration order, a record before its fields
RECURSIVE Before(_, _)
Before(p, q) ==
    IF Len(p) = 0 THEN Len(q) > 0
    ELSE IF Len(q) = 0 THEN FALSE
    ELSE IF p[1] = q[1] THEN Before(Tail(p), Tail(q))
    ELSE p[1] < q[1]

\* the style of the record field: the last style setting of its tag, or the
\* Decoder's style
StyleAt(sf) ==
    IF \E i \in 1..Len(parseFieldConf(sf).conf) :
          parseFieldConf(sf).conf[i] \in DelimitedStyles \cup {QueryStyleDeepObject}
    THEN parseFieldConf(sf).conf[
            Greatest({i \in 1..Len(parseFieldConf(sf).conf) :
                        parseFieldConf(sf).conf[i]
                            \in DelimitedStyles \cup {QueryStyleDeepObject}})]
    ELSE dec.style

\* the field is a nested record the walker replaces by its children, by the
\* style of the field
Spliced(sf) ==
    /\ sf.type.kind = "struct"
    /\ ~ImplementsTextUnmarshaler(sf.type)
    /\ parseFieldConf(sf).origin = originQuery
    /\ StyleAt(sf) # QueryStyleDeepObject

\* the same by the tag alone: no deepObject setting is written in it
SplicedByTag(sf) ==
    /\ sf.type.kind = "struct"
    /\ ~ImplementsTextUnmarshaler(sf.type)
    /\ parseFieldConf(sf).origin = originQuery
    /\ \A i \in 1..Len(parseFieldConf(sf).conf) :
          parseFieldConf(sf).conf[i] # QueryStyleDeepObject

\* the paths of the exported fields all of whose enclosing records are exported
Visible(t) ==
    {p \in AllPaths(t) : \A n \in 1..Len(p) : FieldAt(t, SubSeq(p, 1, n)).exported}

\* the paths of the walker's sequence
WalkerPaths == {fields[j].path : j \in 1..Len(fields)}

\* the sequence is in declaration order, parent first, without repetition
InOrder == \A j \in 1..(Len(fields) - 1) : Before(fields[j].path, fields[j + 1].path)

\* C25 as claimed: the walker's sequence is in declaration order and holds
\* exactly the visible fields that are not spliced records and whose
\* enclosing records are all spliced, a record of deepObject style being one
\* entry; the children of a spliced record are bound by their own names.
C25_WalkerShape ==
    Walked =>
        /\ InOrder
        /\ WalkerPaths =
              {p \in Visible(arg.type) :
                  /\ ~Spliced(FieldAt(arg.type, p))
                  /\ \A n \in 1..(Len(p) - 1) : Spliced(FieldAt(arg.type, SubSeq(p, 1, n)))}

\* What holds: the same with a spliced record being one without a
\* deepObject setting in its tag, whatever the style of the Decoder; a
\* string field reached through spliced records holds the first of the values
\* found under its own name.
C25_WalkerShapeByTag ==
    Walked =>
        /\ InOrder
        /\ WalkerPaths =
              {p \in Visible(arg.type) :
                  /\ ~SplicedByTag(FieldAt(arg.type, p))
                  /\ \A n \in 1..(Len(p) - 1) :
                        SplicedByTag(FieldAt(arg.type, SubSeq(p, 1, n)))}
        /\ \A j \in Passed :
              /\ QueryField(j)
              /\ fields[j].sf.type = TString
              /\ fields[j].conf.name \in DOMAIN query
              => FieldVal(j) = [str |-> FirstRaw(j)]

\* the nested fields are bound beside the top-level ones
C25_ByTagReached ==
    /\ Succeeded
    /\ arg.type = TWalk
    /\ DOMAIN arg.r.query = {<<"c">>, <<"d">>, <<"z">>}
    /\ [j \in 1..Len(fields) |-> fields[j].path]
          = <<<<1>>, <<2, 1>>, <<2, 2, 1>>, <<2, 3>>, <<3>>, <<4>>, <<5>>, <<6>>>>
    /\ GetAt(val, <<2, 2, 1>>) = [str |-> <<"x">>]
    /\ GetAt(val, <<2, 3>>) = [str |-> <<"x">>]

\* under a Decoder of deepObject style the nested record is spliced all the
\* same and Decode fails at a field that is not a record
C25_SplicedUnderDeepStyle ==
    /\ Failed
    /\ dec.style = QueryStyleDeepObject
    /\ arg.type = TWalk
    /\ Len(fields) = 8
    /\ err = Err("query param", <<"a">>, "want struct")

\* the paths of the target's fields that are unexported or lie in an
\* unexported record
Hidden(t) == AllPaths(t) \ Visible(t)

\* C26 as claimed: for every request Decode leaves every unexported field as
\* it was and never attempts to write one, so it never panics on one; no
\* unexported field is in the walker's sequence.
C26_UnexportedNeverBound ==
    arg.kind = "ptr_struct" =>
        /\ pc # "panic"
        /\ \A p \in Hidden(arg.type) : GetAt(val, p) = GetAt(arg.val0, p)
        /\ \A j \in 1..Len(fields) : fields[j].path \in Visible(arg.type)

\* sub-field i of the deepObject record j is unexported and the request has
\* a key for it
HiddenSubKey(j, i) ==
    /\ ~fields[j].sf.type.fields[i].exported
    /\ \E k \in DOMAIN query : k = DeepKey(fields[j].conf.name, SubConf(j, i).name)

\* What holds: no unexported field is ever changed and none is in the
\* walker's sequence; Decode panics exactly at a deepObject record with an
\* unexported sub-field whose name[sub] key is in the request, reached before
\* any sub-field fails.
C26_UnexportedUnlessDeepKey ==
    arg.kind = "ptr_struct" =>
        /\ \A p \in Hidden(arg.type) : GetAt(val, p) = GetAt(arg.val0, p)
        /\ \A j \in 1..Len(fields) : fields[j].path \in Visible(arg.type)
        /\ pc = "panic" =>
              /\ DeepField(idx)
              /\ \E i \in SubFields(idx) : HiddenSubKey(idx, i)
        /\ \A j \in Passed : DeepField(j) => \A i \in SubFields(j) : ~HiddenSubKey(j, i)

\* the request has p[e] and Decode has panicked at the record P
C26_PanicReached ==
    /\ pc = "panic"
    /\ arg.type = THidden
    /\ DOMAIN arg.r.query = {DeepKey(<<"p">>, <<"e">>)}
    /\ idx = 2
    /\ val = arg.val0

\* the walker's field j is a slice of bytes, or a pointer to one, bound by
\* name to a key of the request
BytesField(j) ==
    /\ QueryField(j)
    /\ Pointee(fields[j].sf.type) = TSlice(TUint(8))
    /\ fields[j].conf.name \in DOMAIN query

BytesOf(text) == [slice |-> [i \in 1..Len(text) |-> [byte |-> text[i]]], nil |-> FALSE]

\* C27: a []byte field whose key is present is set to the bytes of the first
\* of its raw values, as many as the value is long, whatever the text is;
\* Decode never fails at such a field.
C27_BytesVerbatim ==
    Walked =>
        /\ \A j \in Passed : BytesField(j) =>
              FieldVal(j) = Pointing(fields[j].sf.type, BytesOf(Pieces(j)[1]))
        /\ Returned /\ idx \in 1..Len(fields) => ~BytesField(idx)

\* text that is no numeral, a numeral out of the range of a byte and an
\* empty value, each stored as it is
C27_Witness ==
    /\ Succeeded
    /\ arg.type = TBytes
    /\ arg.val0 = Preset(TBytes)
    /\ DOMAIN arg.r.query = {<<"b">>, <<"p">>, <<"i">>}
    /\ arg.r.query[<<"b">>] = <<<<"a">>, <<"b", "c">>>>
    /\ arg.r.query[<<"p">>] = <<<<"3", "0", "0">>>>
    /\ arg.r.query[<<"i">>] = <<<<>>>>
    /\ FieldVal(1) = BytesOf(<<"a">>)
    /\ FieldVal(2) = [ptr |-> <<BytesOf(<<"3", "0", "0">>)>>]
    /\ FieldVal(3) = BytesOf(<<>>)

\* the kind setValue arrives at behind the pointers and elements of the type
RECURSIVE Offending(_)
Offending(t) ==
    IF t.kind = "ptr" THEN Offending(t.elem)
    ELSE IF t.kind = "slice" /\ t.elem # TUint(8) THEN Offending(t.elem)
    ELSE IF ImplementsTextUnmarshaler(t) THEN "text"
    ELSE t.kind

\* the walker's field j is bound by name to a key of the request and its
\* type arrives at a map or a record
UnsupportedField(j) ==
    /\ QueryField(j)
    /\ Offending(fields[j].sf.type) \in {"map", "struct"}
    /\ fields[j].conf.name \in DOMAIN query

\* C28: a field of an unsupported shape whose key is in the request is never
\* passed by: Decode returns at it, with the error of the parameter that
\* names the kind of the shape.
C28_UnsupportedShapeFails ==
    Walked =>
        /\ \A j \in Passed : ~UnsupportedField(j)
        /\ Returned => \A j \in 1..Len(fields) : UnsupportedField(j) => Failed /\ idx <= j
        /\ Returned /\ idx \in 1..Len(fields) /\ UnsupportedField(idx) =>
              err = Err("query param", fields[idx].conf.name,
                        IF Offending(fields[idx].sf.type) = "map"
                        THEN "unknown type: map" ELSE "unknown type: struct")

\* a pointer to a record with its key in the request
C28_Witness ==
    /\ Failed
    /\ arg.type = TUnknown(TPtr(TSub))
    /\ DOMAIN arg.r.query = {<<"a">>, <<"u">>}
    /\ idx = 2
    /\ err = Err("query param", <<"u">>, "unknown type: struct")
    /\ FieldVal(1) = [str |-> <<"x">>]

\* the two values hold the same elements as often, in whatever order, when
\* they are slices, and are equal otherwise
SameBag(v, w) ==
    IF DOMAIN v = {"slice", "nil"} /\ DOMAIN w = {"slice", "nil"}
    THEN /\ v.nil = w.nil
         /\ Len(v.slice) = Len(w.slice)
         /\ \A i \in 1..Len(v.slice) : Count(v.slice, v.slice[i]) = Count(w.slice, v.slice[i])
    ELSE v = w

\* field j has what it has when the keys are put into the index in the one
\* order Alone puts them
AsAlone(j) == SameBag(FieldVal(j), GetAt(Alone(dec, arg).val, fields[j].path))

\* C29 as claimed: whatever the order the keys of the request are put into
\* the index, Decode returns the same error or none, and every field holds
\* the same values as often.
C29_OrderIndependent ==
    Returned /\ arg.kind = "ptr_struct" =>
        /\ err = Alone(dec, arg).err
        /\ \A j \in 1..Len(fields) : AsAlone(j)

\* the request has two spellings of the name of field j
Variants(j) == Cardinality(CaseClass(fields[j].conf.name)) > 1

\* What holds: the error does not depend on the order, nor does a field
\* whose name has one spelling in the request, nor an exploded field of a
\* lower-case name.
C29_OrderIndependentUnlessVariants ==
    Returned /\ arg.kind = "ptr_struct" =>
        /\ err = Alone(dec, arg).err
        /\ \A j \in 1..Len(fields) :
              \/ ~QueryField(j)
              \/ ~Variants(j)
              \/ FieldConf(j).exploded /\ fields[j].conf.name = ToLower(fields[j].conf.name)
              => AsAlone(j)

\* two orders of one request: the field named Ab has the values of ab too
C29_OrderWithBoth ==
    /\ Succeeded
    /\ arg.type = TCase
    /\ DOMAIN arg.r.query = {<<"a", "b">>, <<"A", "b">>}
    /\ FieldVal(1) = StringSlice(<<<<"3">>, <<"1">>, <<"2">>>>)
    /\ FieldVal(2) = StringSlice(<<<<"2">>>>)

\* ... or its own alone, and the imploded field the value of the other spelling
C29_OrderWithOwn ==
    /\ Succeeded
    /\ arg.type = TCase
    /\ DOMAIN arg.r.query = {<<"a", "b">>, <<"A", "b">>}
    /\ FieldVal(1) = StringSlice(<<<<"3">>>>)
    /\ FieldVal(2) = StringSlice(<<<<"3">>>>)

\* what is behind the pointers of a value of type t, a nil pointer standing
\* for the zero value it would point to
RECURSIVE Behind(_, _)
Behind(t, v) == IF t.kind = "ptr" THEN Behind(t.elem, deref(t, v)) ELSE v

\* Decode has returned the error of a query parameter, at the walker's
\* field idx
FailedAtField ==
    /\ Failed
    /\ arg.kind = "ptr_struct"
    /\ idx \in 1..Len(fields)
    /\ fields[idx].origin = originQuery
    /\ err.kind = "query param"

\* C30 as claimed: the field at which the binding failed is left exactly as
\* it was before the call: a slice is not partially filled, a nil pointer
\* is not left allocated, a deepObject record has no sub-field changed.
C30_FailingFieldUntouched == FailedAtField => FieldVal(idx) = FieldVal0(idx)

\* sub-field i of a record of type rt is where setDeepValue stopped: what is
\* behind its pointers is as before, and so is every sub-field after it
StoppedAt(rt, rec, rec0, i) ==
    /\ Behind(rt.fields[i].type, rec.struct[i]) = Behind(rt.fields[i].type, rec0.struct[i])
    /\ \A k \in (i + 1)..Len(rt.fields) : rec.struct[k] = rec0.struct[k]

\* What holds: at the failing field whatever is behind its pointers is as
\* it was before the call, a nil pointer counting as the zero value (a
\* scalar is unchanged, a slice keeps all its elements); in a deepObject
\* record that holds of the failing sub-field and of those after it.
C30_UntouchedBehindPointers ==
    FailedAtField =>
        IF FieldConf(idx).style = QueryStyleDeepObject
              /\ Pointee(fields[idx].sf.type).kind = "struct"
        THEN \E i \in 1..Len(Pointee(fields[idx].sf.type).fields) :
                StoppedAt(Pointee(fields[idx].sf.type),
                          Behind(fields[idx].sf.type, FieldVal(idx)),
                          Behind(fields[idx].sf.type, FieldVal0(idx)), i)
        ELSE Behind(fields[idx].sf.type, FieldVal(idx))
                = Behind(fields[idx].sf.type, FieldVal0(idx))

\* a slice of numbers fails at its second element and keeps the element it had
C30_SliceKept ==
    /\ FailedAtField
    /\ arg.type = TCoerced(TSlice(TInt(8)))
    /\ query[<<"v">>] = <<<<"1">>, <<"x">>>>
    /\ dec.exploded
    /\ FieldVal0(idx) = [slice |-> <<[int |-> 7]>>, nil |-> FALSE]
    /\ FieldVal(idx) = FieldVal0(idx)

\* ?v=x for V *int8: the nil pointer is left pointing to a zero
C30_PointerLeftAllocated ==
    /\ FailedAtField
    /\ arg.type = TCoerced(TPtr(TInt(8)))
    /\ FieldVal0(idx) = [ptr |-> <<>>]
    /\ FieldVal(idx) = [ptr |-> <<[int |-> 0]>>]

\* ?p[s]=1&p[n]=x: the record fails at N with S already set
C30_RecordPartlySet ==
    /\ FailedAtField
    /\ arg.type = TDeepCoerced(TPair)
    /\ SubVal0(idx, 1) = [str |-> <<>>]
    /\ SubVal(idx, 1) = [str |-> <<"1">>]
    /\ SubVal(idx, 2) = SubVal0(idx, 2)

===========================================================================
